---- MODULE Spec2Model ----
(***************************************************************************)
(* A model of the NoteScan sheet-music pipeline:                           *)
(*   MusicSheetProcessor.processSheet  (pitch mapping, ties, voices,       *)
(*   measures, rhythm quantization, repeat expansion, final ordering) and  *)
(*   AudioPlaybackService.createCombinedAudio as the playback screen       *)
(*   calls it (beat columns, timing map).                                  *)
(*                                                                         *)
(* Image analysis is abstracted to its results: the detected note heads,   *)
(* bar lines, clefs, key/time signature, systems, tie arcs and rests are   *)
(* chosen in the initial state; every later stage is translated from the   *)
(* code.  Beat values are integers in units of 1/16 beat (a 32nd note = 2) *)
(* and times are integers in units of 1/64 second.                         *)
(***************************************************************************)
EXTENDS Integers, Sequences, FiniteSets, TLC

VARIABLES
  pc,            \* position of processSheet / the playback screen
  keySignature,  \* [type, count]
  timeSignature, \* [beats, beatType]
  clefs,         \* staffIndex -> clef type
  systems,       \* sequence of sequences of staff indices (detected systems)
  barLines,      \* sequence of [x, staffIndex, type] (after _filterBarLines)
  noteHeads,     \* sequence of heads after accidental / duration / dot detection
  tieArcs,       \* pairs <<idA, idB>> of heads between which _hasTieArc is true
  restsFound,    \* rests that _detectRests finds in the image
  notes,         \* the note list as it moves through the pipeline
  rests,         \* the rest list (after _detectRests)
  measures,      \* output of _groupIntoMeasures (events by id)
  score,         \* the returned score: ordered events
  voiceSelection,\* the playback screen's voice mask
  tempo,         \* the playback screen's tempo (BPM)
  audio,         \* result of createCombinedAudio
  noteAudio,     \* what generatePianoNote returned, note by note, in mixing order
  master,        \* the master buffer handed to writeWavToFile
  sf2,           \* the SoundFont file handed to loadSoundFont
  soundFont,     \* the fields of the SoundFontService singleton
  soundFontReady,\* AudioPlaybackService._soundFontReady
  loadPc,        \* position of the loadSoundFont call
  renders,       \* what the calls of createCombinedAudio returned, in order
  image,         \* what staff detection and the classifiers find in the image
  accepted,      \* the list _ocrConfidenceGate returns
  race,          \* processScore's race of processSheet against its timer
  service,       \* AudioPlaybackService: sound, isPlaying, _tempFileUri
  screen,        \* the playback screen: isPlaying, isPaused, audioFileUriRef
  cache,         \* the WAV files that exist in the cache directory
  calls,         \* the calls of Audio.Sound.createAsync that have not resolved
  clock,         \* the number writeWavToFile names its next file by
  stopped        \* stop() has run for handleStop or the effect's cleanup
                 \* and Play has not been pressed since

vars == <<pc, keySignature, timeSignature, clefs, systems, barLines, noteHeads,
          tieArcs, restsFound, notes, rests, measures, score, voiceSelection,
          tempo, audio, noteAudio, master, sf2, soundFont, soundFontReady,
          loadPc, renders, image, accepted, race,
          service, screen, cache, calls, clock, stopped>>

\* the playback state, which the recognition and rendering steps leave alone
playVars == <<service, screen, cache, calls, clock, stopped>>

NoSound == [loaded |-> FALSE, uri |-> 0, isPlaying |-> FALSE]

\* the service's statics and the screen's state as declared; uri 0 is null
PlayIdle ==
  /\ service = [sound |-> NoSound, isPlaying |-> FALSE, _tempFileUri |-> 0]
  /\ screen = [mounted |-> TRUE, effectPending |-> FALSE, effectRan |-> FALSE,
               isPlaying |-> FALSE, isPaused |-> FALSE, audioFileUri |-> 0]
  /\ cache = {}
  /\ calls = <<>>
  /\ clock = 1
  /\ stopped = FALSE

(***************************************************************************)
(* Bounds of the model                                                     *)
(***************************************************************************)
NumStaves    == 3    \* staves in the image
StaffSpacing == 2    \* pixels between two adjacent staff lines
LedgerReach  == 7    \* a head's y lies within this many spacings of its staff
XStep        == 9    \* pixel distance between two adjacent x columns
MaxX         == 5    \* x columns: x = XStep * k, k in 1..MaxX
MaxHeads     == 3    \* note heads in the image

(***************************************************************************)
(* Generic helpers                                                         *)
(***************************************************************************)
Abs(n) == IF n < 0 THEN -n ELSE n
Min2(a, b) == IF a <= b THEN a ELSE b
Max2(a, b) == IF a >= b THEN a ELSE b
SetMin(S) == CHOOSE m \in S : \A n \in S : m <= n
SetMax(S) == CHOOSE m \in S : \A n \in S : m >= n
Range(s) == {s[i] : i \in DOMAIN s}

\* Array.prototype.sort with a comparator that orders by an integer key:
\* the permutation (as indices into keys) of a stable ascending sort.
StableOrder(keys) ==
  [r \in 1..Len(keys) |->
     CHOOSE j \in 1..Len(keys) :
       Cardinality({k \in 1..Len(keys) :
                      keys[k] < keys[j] \/ (keys[k] = keys[j] /\ k < j)}) = r - 1]

SortByKey(s, keys) == [r \in 1..Len(s) |-> s[StableOrder(keys)[r]]]

\* Array.prototype.filter
RECURSIVE FilterSeq(_, _)
FilterSeq(s, keep) ==
  IF s = <<>> THEN <<>>
  ELSE IF Head(s) \in keep THEN <<Head(s)>> \o FilterSeq(Tail(s), keep)
       ELSE FilterSeq(Tail(s), keep)

\* the comparator (staffIndex asc, x asc) used by processSheet,
\* _groupIntoMeasures, _mapToPitches and createCombinedAudio
StaffXKeys(s) ==
  LET m == 1 + SetMax({0} \cup {s[i].x : i \in DOMAIN s})
  IN [i \in 1..Len(s) |-> s[i].staffIndex * m + s[i].x]

XKeys(s) == [i \in 1..Len(s) |-> s[i].x]

(***************************************************************************)
(* Staff geometry (result of _groupIntoStaves): five line rows per staff   *)
(***************************************************************************)
StaffIndices == 0..(NumStaves - 1)
StaffHeight == 4 * StaffSpacing
\* two staves are one system when a brace joins them or when the gap between
\* them is less than 6 staff heights: at this gap the image decides
StaffGap == 6 * StaffHeight
StaffTop(si) == LedgerReach * StaffSpacing + si * (StaffHeight + StaffGap)
staves == [si \in StaffIndices |->
             [li \in 0..4 |-> StaffTop(si) + li * StaffSpacing]]
StaffRows(si) == (staves[si][0] - LedgerReach * StaffSpacing)
                 ..(staves[si][4] + LedgerReach * StaffSpacing)
ImageHeight == staves[NumStaves - 1][4] + LedgerReach * StaffSpacing + 1

(***************************************************************************)
(* Pitch tables                                                            *)
(***************************************************************************)
_TABLE_OFFSET == 4

_TREBLE_TABLE ==
  [name |-> <<"A","B","C","D","E","F","G","A","B","C","D","E","F","G","A","B","C","D">>,
   midi |-> <<57,59,60,62,64,65,67,69,71,72,74,76,77,79,81,83,84,86>>]
_BASS_TABLE ==
  [name |-> <<"C","D","E","F","G","A","B","C","D","E","F","G","A","B","C","D","E","F">>,
   midi |-> <<36,38,40,41,43,45,47,48,50,52,53,55,57,59,60,62,64,65>>]
_ALTO_TABLE ==
  [name |-> <<"B","C","D","E","F","G","A","B","C","D","E","F","G","A","B","C","D","E">>,
   midi |-> <<47,48,50,52,53,55,57,59,60,62,64,65,67,69,71,72,74,76>>]
_SOPRANO_TABLE ==
  [name |-> <<"E","F","G","A","B","C","D","E","F","G","A","B","C","D","E","F","G","A">>,
   midi |-> <<40,41,43,45,47,48,50,52,53,55,57,59,60,62,64,65,67,69>>]
_TENOR_TABLE ==
  [name |-> <<"D","E","F","G","A","B","C","D","E","F","G","A","B","C","D","E","F","G">>,
   midi |-> <<50,52,53,55,57,59,60,62,64,65,67,69,71,72,74,76,77,79>>]

ClefTypes == {"treble", "bass", "alto", "soprano", "tenor"}
Accidentals == {"sharp", "flat", "natural"}
NoAccidental == "none"

sharpNotes == <<"F", "C", "G", "D", "A", "E", "B">>
flatNotes  == <<"B", "E", "A", "D", "G", "C", "F">>

\* the set of letters the key signature alters
keySigNotes(ks) ==
  IF ks.type = "Sharps"
    THEN {sharpNotes[i] : i \in 1..Min2(ks.count, Len(sharpNotes))}
  ELSE IF ks.type = "Flats"
    THEN {flatNotes[i] : i \in 1..Min2(ks.count, Len(flatNotes))}
  ELSE {}

\* accidental state that is never reset at a bar line
getMeasureId_noReset(bars, staffIdx, x) == 0

\* measure id of x on a staff: the number of that staff's bar lines at or left of x
getMeasureId(bars, staffIdx, x) ==
  Cardinality({i \in DOMAIN bars : bars[i].staffIndex = staffIdx /\ bars[i].x <= x})

(***************************************************************************)
(* _mapToPitches: staff position from y.  Rows are kept in eighths of a    *)
(* pixel so that half-spaces and space centres stay integers.              *)
(***************************************************************************)
knownPositions(staff) ==
  LET hs8 == staff[4] - staff[0]     \* 8 * halfSpace
  IN [k \in 1..17 |->
        IF k <= 5 THEN [y8 |-> 8 * staff[4 - (k - 1)], staffPos |-> (k - 1) * 2]
        ELSE IF k <= 9
          THEN [y8 |-> 4 * (staff[4 - (k - 6)] + staff[4 - (k - 6) - 1]),
                staffPos |-> (k - 6) * 2 + 1]
        ELSE LET ext == (k - 8) \div 2
             IN IF k % 2 = 0
                  THEN [y8 |-> 8 * staff[4] + hs8 * ext, staffPos |-> -ext]
                  ELSE [y8 |-> 8 * staff[0] - hs8 * ext, staffPos |-> 8 + ext]]

staffPositionOf(staff, y) ==
  LET kp == knownPositions(staff)
      hs8 == staff[4] - staff[0]
      dist(k) == Abs(8 * y - kp[k].y8)
      bestDist == SetMin({dist(k) : k \in DOMAIN kp})
      first == SetMin({k \in DOMAIN kp : dist(k) = bestDist})
  IN IF 5 * bestDist > 3 * hs8                  \* bestDist > halfSpace * 0.6
       THEN (16 * (staff[4] - y) + hs8) \div (2 * hs8)   \* Math.round(rawPos)
       ELSE kp[first].staffPos

clefTypeOf(cl, sys, staffIndex) ==
  IF staffIndex \in DOMAIN cl THEN cl[staffIndex]
  ELSE IF \E s \in DOMAIN sys : Len(sys[s]) = 2 /\ sys[s][2] = staffIndex
         THEN "bass" ELSE "treble"

tableOf(clefType) ==
  IF clefType = "soprano" THEN _SOPRANO_TABLE
  ELSE IF clefType = "tenor" THEN _TENOR_TABLE
  ELSE IF clefType = "alto" THEN _ALTO_TABLE
  ELSE IF clefType = "bass" THEN _BASS_TABLE
  ELSE _TREBLE_TABLE

\* table lookup with the position clamped to the table
tableEntry(clefType, staffPosition) ==
  LET table == tableOf(clefType)
      minPos == -_TABLE_OFFSET
      maxPos == Len(table.midi) - 1 - _TABLE_OFFSET
      clampedPos == Max2(minPos, Min2(maxPos, staffPosition))
      tableIdx == clampedPos + _TABLE_OFFSET
  IN [name |-> table.name[tableIdx + 1], midi |-> table.midi[tableIdx + 1]]

\* ceil(n / 7) for n >= 0
CeilDiv7(n) == (n + 6) \div 7

\* table pitch, extrapolated by octaves outside the table
naturalMidi(clefType, staffPosition) ==
  LET table == tableOf(clefType)
      minPos == -_TABLE_OFFSET
      maxPos == Len(table.midi) - 1 - _TABLE_OFFSET
      entry == tableEntry(clefType, staffPosition)
  IN IF staffPosition < minPos
       THEN entry.midi - CeilDiv7(minPos - staffPosition) * 12
     ELSE IF staffPosition > maxPos
       THEN entry.midi + CeilDiv7(staffPosition - maxPos) * 12
     ELSE entry.midi

\* Step 1: key signature
keySigStep(ks, pitchName, midiNote) ==
  IF pitchName \in keySigNotes(ks)
    THEN IF ks.type = "Sharps" THEN midiNote + 1
         ELSE IF ks.type = "Flats" THEN midiNote - 1
         ELSE midiNote
    ELSE midiNote

\* an inline accidental applied on top of the key signature instead of
\* replacing it
activeAccStep_onTop(ks, pitchName, activeAcc, midiNote) ==
  IF activeAcc = "sharp" THEN midiNote + 1
  ELSE IF activeAcc = "flat" THEN midiNote - 1
  ELSE midiNote

\* Step 3: the active accidental of the position in the measure
activeAccStep(ks, pitchName, activeAcc, midiNote) ==
  LET inKey == pitchName \in keySigNotes(ks)
  IN IF activeAcc = "sharp"
       THEN IF inKey
              THEN IF ks.type = "Sharps" THEN midiNote
                   ELSE IF ks.type = "Flats" THEN midiNote + 1 + 1
                   ELSE midiNote
              ELSE midiNote + 1
     ELSE IF activeAcc = "flat"
       THEN IF inKey
              THEN IF ks.type = "Flats" THEN midiNote
                   ELSE IF ks.type = "Sharps" THEN midiNote - 1 - 1
                   ELSE midiNote
              ELSE midiNote - 1
     ELSE IF activeAcc = "natural"
       THEN IF inKey
              THEN IF ks.type = "Sharps" THEN midiNote - 1
                   ELSE IF ks.type = "Flats" THEN midiNote + 1
                   ELSE midiNote
              ELSE midiNote
     ELSE midiNote

\* no clamp
clampMidi_none(midiNote) == midiNote

\* clamp to piano range
clampMidi(midiNote) == Max2(21, Min2(108, midiNote))

\* pitch of one head given the active accidental of its position
pitchOf(ks, clefType, staffPosition, activeAcc) ==
  LET entry == tableEntry(clefType, staffPosition)
      m0 == naturalMidi(clefType, staffPosition)
      m1 == keySigStep(ks, entry.name, m0)
      m2 == activeAccStep(ks, entry.name, activeAcc, m1)
  IN clampMidi(m2)

stateKeyOf(bars, head, staffPosition) ==
  <<head.staffIndex, getMeasureId(bars, head.staffIndex, head.x), staffPosition>>

\* the body of sortedHeads.map: one head, threading accidentalState
mapHead(head, ks, cl, sys, bars, accidentalState) ==
  IF head.staffIndex \notin DOMAIN staves
    THEN [note |-> [head EXCEPT !.pitch = "C", !.midiNote = 60, !.staffPosition = 0],
          state |-> accidentalState]
  ELSE
    LET staffPosition == staffPositionOf(staves[head.staffIndex], head.y)
        clefType == clefTypeOf(cl, sys, head.staffIndex)
        stateKey == stateKeyOf(bars, head, staffPosition)
        state1 == IF head.accidental \in Accidentals
                    THEN [k \in DOMAIN accidentalState \cup {stateKey} |->
                            IF k = stateKey THEN head.accidental
                            ELSE accidentalState[k]]
                    ELSE accidentalState
        activeAcc == IF stateKey \in DOMAIN state1 THEN state1[stateKey]
                     ELSE NoAccidental
    IN [note |-> [head EXCEPT
                    !.pitch = tableEntry(clefType, staffPosition).name,
                    !.midiNote = pitchOf(ks, clefType, staffPosition, activeAcc),
                    !.staffPosition = staffPosition,
                    !.isBassClef = (clefType = "bass"),
                    !.clefType = clefType],
        state |-> state1]

RECURSIVE mapSortedHeads(_, _, _, _, _, _, _)
mapSortedHeads(sortedHeads, i, ks, cl, sys, bars, accidentalState) ==
  IF i > Len(sortedHeads) THEN <<>>
  ELSE LET r == mapHead(sortedHeads[i], ks, cl, sys, bars, accidentalState)
       IN <<r.note>> \o mapSortedHeads(sortedHeads, i + 1, ks, cl, sys, bars, r.state)

\* _mapToPitches: results come back in the order of noteHeads
_mapToPitches(heads, sys, ks, cl, bars) ==
  LET order == StableOrder(StaffXKeys(heads))
      sortedHeads == [r \in 1..Len(heads) |-> heads[order[r]]]
      results == mapSortedHeads(sortedHeads, 1, ks, cl, sys, bars, <<>>)
  IN [i \in 1..Len(heads) |->
        results[CHOOSE r \in 1..Len(heads) : order[r] = i]]

(***************************************************************************)
(* Durations, in units of 1/16 beat                                        *)
(***************************************************************************)
DurationNames == {"whole", "dotted_whole", "half", "dotted_half", "quarter",
                  "dotted_quarter", "eighth", "dotted_eighth", "sixteenth",
                  "dotted_sixteenth", "32nd", "dotted_32nd"}

durationBeats ==
  [d \in DurationNames |->
     CASE d = "whole" -> 64 [] d = "dotted_whole" -> 96
       [] d = "half" -> 32 [] d = "dotted_half" -> 48
       [] d = "quarter" -> 16 [] d = "dotted_quarter" -> 24
       [] d = "eighth" -> 8 [] d = "dotted_eighth" -> 12
       [] d = "sixteenth" -> 4 [] d = "dotted_sixteenth" -> 6
       [] d = "32nd" -> 2 [] d = "dotted_32nd" -> 3]

\* durationBeats[e.duration] || 1
beatsOfDuration(d) == IF d \in DurationNames THEN durationBeats[d] ELSE 16

\* e.tiedBeats || durationBeats[e.duration] || 1   (tiedBeats 0 = not set)
getBeats(e) == IF e.tiedBeats # 0 THEN e.tiedBeats ELSE beatsOfDuration(e.duration)

(***************************************************************************)
(* _detectTies                                                             *)
(***************************************************************************)
_beatsToDuration(beats) ==
  IF beats >= 88 THEN "dotted_whole"            \* 5.5
  ELSE IF beats >= 56 THEN "whole"              \* 3.5
  ELSE IF beats >= 40 THEN "dotted_half"        \* 2.5
  ELSE IF beats >= 28 THEN "half"               \* 1.75
  ELSE IF beats >= 20 THEN "dotted_quarter"     \* 1.25
  ELSE IF beats >= 14 THEN "quarter"            \* 0.875
  ELSE IF beats >= 10 THEN "dotted_eighth"      \* 0.625
  ELSE IF beats >= 6 THEN "eighth"              \* 0.375
  ELSE IF 10 * beats >= 48 THEN "dotted_sixteenth"   \* 0.3
  ELSE "sixteenth"

\* an arc is seen between any two heads
_hasTieArc_always(arcs, noteA, noteB) == TRUE

\* _hasTieArc: the image shows an arc between the two heads
_hasTieArc(arcs, noteA, noteB) == <<noteA.ref, noteB.ref>> \in arcs

\* the three tests of the inner loop: noteB extends a chain whose head is chainHead
extendsChain(arcs, staff, chainHead, noteB) ==
  LET dx == noteB.x - chainHead.x
  IN /\ chainHead.midiNote = noteB.midiNote
     /\ ~(dx <= 0 \/ dx > 2 * (staff[4] - staff[0]))     \* dx > spacing * 8
     /\ _hasTieArc(arcs, chainHead, noteB)

\* the inner while loop: the first j that does not extend the chain
RECURSIVE chainEnd(_, _, _, _)
chainEnd(arcs, staff, staffNotes, j) ==
  IF j > Len(staffNotes) THEN j
  ELSE IF extendsChain(arcs, staff, staffNotes[j - 1], staffNotes[j])
         THEN chainEnd(arcs, staff, staffNotes, j + 1)
         ELSE j

\* sum of the durations of staffNotes[i..j-1]
RECURSIVE chainBeats(_, _, _)
chainBeats(staffNotes, i, j) ==
  IF i >= j THEN 0
  ELSE beatsOfDuration(staffNotes[i].duration) + chainBeats(staffNotes, i + 1, j)

\* the outer while loop over one staff (i is 1-based): the chains found,
\* each as [start, removed, totalBeats]
RECURSIVE staffChains(_, _, _, _)
staffChains(arcs, staff, staffNotes, i) ==
  IF i >= Len(staffNotes) THEN {}
  ELSE LET j == chainEnd(arcs, staff, staffNotes, i + 1)
       IN IF j > i + 1
            THEN {[start |-> staffNotes[i].ref,
                   removed |-> {staffNotes[k].ref : k \in (i + 1)..(j - 1)},
                   totalBeats |-> chainBeats(staffNotes, i, j)]}
                 \cup staffChains(arcs, staff, staffNotes, j)
            ELSE staffChains(arcs, staff, staffNotes, i + 1)

allChains(arcs, ns) ==
  UNION {LET onStaff == FilterSeq(ns, {n \in Range(ns) : n.staffIndex = si})
             staffNotes == SortByKey(onStaff, XKeys(onStaff))
         IN IF si \in DOMAIN staves
              THEN staffChains(arcs, staves[si], staffNotes, 1)
              ELSE {}
         : si \in {n.staffIndex : n \in Range(ns)}}

_detectTies(arcs, ns) ==
  IF Len(ns) < 2 THEN ns
  ELSE
    LET chains == allChains(arcs, ns)
        tiedSet == UNION {c.removed : c \in chains}
        merged == [i \in 1..Len(ns) |->
                     IF \E c \in chains : c.start = ns[i].ref
                       THEN LET c == CHOOSE c \in chains : c.start = ns[i].ref
                            IN [ns[i] EXCEPT !.tiedBeats = c.totalBeats,
                                             !.duration = _beatsToDuration(c.totalBeats)]
                       ELSE ns[i]]
    IN FilterSeq(merged, {n \in Range(merged) : n.ref \notin tiedSet})

(***************************************************************************)
(* _assignVoices                                                           *)
(***************************************************************************)
\* Math.round(v / 3) for v >= 0
Round3(v) == (2 * v + 3) \div 6

dedupKey(note) == <<Round3(note.x), Round3(note.y), note.midiNote>>

\* keep the first note of every dedup key
deduped(ns) ==
  FilterSeq(ns, {ns[i] : i \in {i \in DOMAIN ns :
                   \A k \in 1..(i - 1) : dedupKey(ns[k]) # dedupKey(ns[i])}})

\* sort: staffIndex asc, x asc, pitch desc.  The comparator treats x values
\* at most 5 apart as equal; the heads of one staff lie at least
\* minNoteGap = 8 pixels apart in x unless they share a column.
voiceSortKeys(ns) ==
  LET mx == 1 + SetMax({0} \cup {ns[i].x : i \in DOMAIN ns})
  IN [i \in 1..Len(ns) |->
        (ns[i].staffIndex * mx + ns[i].x) * 128 + (127 - ns[i].midiNote)]

voiceOf(ds, note) ==
  LET isLowerClef == note.isBassClef \/ note.clefType = "tenor"
      upper == IF isLowerClef THEN "Tenor" ELSE "Soprano"
      lower == IF isLowerClef THEN "Bass" ELSE "Alto"
      peers == {n \in Range(ds) : /\ n.ref # note.ref
                                  /\ n.staffIndex = note.staffIndex
                                  /\ Abs(n.x - note.x) < 8}
      hasOtherAtSameX == \E n \in peers : n.midiNote # note.midiNote
      isHigher == ~\E n \in peers : n.midiNote > note.midiNote
  IN IF note.stemDir = -1 THEN upper
     ELSE IF note.stemDir = 1 THEN lower
     ELSE IF hasOtherAtSameX THEN (IF isHigher THEN upper ELSE lower)
     ELSE upper

_assignVoices(ns) ==
  LET dd == deduped(ns)
      ds == SortByKey(dd, voiceSortKeys(dd))
  IN [i \in 1..Len(ds) |->
        [ds[i] EXCEPT !.voice = voiceOf(ds, ds[i]), !.accidental = NoAccidental]]

(***************************************************************************)
(* _detectRests: the rest-like shapes of the image that lie in a gap the   *)
(* scan visits                                                             *)
(***************************************************************************)
ImageWidth == XStep * (MaxX + 2)

restZones(ns, staffIdx) ==
  LET spacing4 == staves[staffIdx][4] - staves[staffIdx][0]   \* 4 * spacing
      marginX == (3 * spacing4) \div 8          \* floor(spacing * 1.5)
      minGapWidth == (5 * spacing4) \div 8      \* floor(spacing * 2.5)
      scanStartX == (15 * ImageWidth) \div 100
      onStaff == FilterSeq(ns, {n \in Range(ns) : n.staffIndex = staffIdx})
      staffNotes == SortByKey(onStaff, XKeys(onStaff))
      k == Len(staffNotes)
  IN IF k = 0
       THEN IF ImageWidth - scanStartX > minGapWidth
              THEN {[left |-> scanStartX, right |-> ImageWidth - marginX]} ELSE {}
       ELSE (IF staffNotes[1].x - scanStartX > minGapWidth
               THEN {[left |-> scanStartX, right |-> staffNotes[1].x - marginX]}
               ELSE {})
            \cup {[left |-> staffNotes[i].x + marginX,
                   right |-> staffNotes[i + 1].x - marginX] :
                  i \in {i \in 1..(k - 1) :
                           (staffNotes[i + 1].x - marginX)
                           - (staffNotes[i].x + marginX) > minGapWidth}}
            \cup (IF ImageWidth - marginX - (staffNotes[k].x + marginX) > minGapWidth
                    THEN {[left |-> staffNotes[k].x + marginX,
                           right |-> ImageWidth - marginX]}
                    ELSE {})

_detectRests(found, ns) ==
  FilterSeq(found,
    {r \in Range(found) :
       /\ r.staffIndex \in DOMAIN staves
       /\ \E z \in restZones(ns, r.staffIndex) : z.left < r.x /\ r.x < z.right})

(***************************************************************************)
(* _groupIntoMeasures                                                      *)
(***************************************************************************)
\* [0, ...staffBarLines] ; the closing boundary Infinity is implicit
boundariesOf(bars, staffIdx) ==
  LET onStaff == FilterSeq(bars, {b \in Range(bars) : b.staffIndex = staffIdx})
      xs == [i \in 1..Len(onStaff) |-> onStaff[i].x]
  IN <<0>> \o SortByKey(xs, xs)

RECURSIVE staffMeasures(_, _, _, _)
staffMeasures(staffEvents, boundaries, staffIdx, i) ==
  IF i > Len(boundaries) THEN <<>>
  ELSE
    LET measureEvents ==
          FilterSeq(staffEvents,
            {e \in Range(staffEvents) :
               /\ e.x >= boundaries[i]
               /\ (i = Len(boundaries) \/ e.x < boundaries[i + 1])})
    IN (IF Len(measureEvents) > 0
          THEN <<[measureIndex |-> i - 1, staffIndex |-> staffIdx,
                  events |-> [k \in 1..Len(measureEvents) |-> measureEvents[k].ref]]>>
          ELSE <<>>)
       \o staffMeasures(staffEvents, boundaries, staffIdx, i + 1)

RECURSIVE measuresFrom(_, _, _)
measuresFrom(allEvents, bars, staffIdx) ==
  IF staffIdx \notin DOMAIN staves THEN <<>>
  ELSE LET staffEvents ==
             FilterSeq(allEvents, {e \in Range(allEvents) : e.staffIndex = staffIdx})
       IN (IF Len(staffEvents) = 0 THEN <<>>
           ELSE staffMeasures(staffEvents, boundariesOf(bars, staffIdx), staffIdx, 1))
          \o measuresFrom(allEvents, bars, staffIdx + 1)

_groupIntoMeasures(ns, rs, bars) ==
  LET merged == ns \o rs
      allEvents == SortByKey(merged, StaffXKeys(merged))
  IN measuresFrom(allEvents, bars, 0)

(***************************************************************************)
(* _quantizeRhythms                                                        *)
(***************************************************************************)
\* timeSignature.beats * (4 / timeSignature.beatType), in 1/16 beats
beatsPerMeasure(ts) == (ts.beats * 64) \div ts.beatType

allowedDurations ==
  <<"32nd", "dotted_32nd", "sixteenth", "dotted_sixteenth", "eighth",
    "dotted_eighth", "quarter", "dotted_quarter", "half", "dotted_half",
    "whole", "dotted_whole">>

\* the allowed duration closest to num / den beats (den > 0); the first one wins a tie
findClosestDuration(num, den) ==
  LET dist(k) == Abs(durationBeats[allowedDurations[k]] * den - num)
      bestDist == SetMin({dist(k) : k \in DOMAIN allowedDurations})
  IN allowedDurations[SetMin({k \in DOMAIN allowedDurations : dist(k) = bestDist})]

\* the column loop shared by buildBeatColumns and createCombinedAudio:
\* an event joins the open column when it is within threshold of its first event
RECURSIVE columnsFrom(_, _, _, _)
columnsFrom(sorted, i, col, threshold) ==
  IF i > Len(sorted) THEN <<col>>
  ELSE IF Abs(sorted[i].x - col[1].x) < threshold
         THEN columnsFrom(sorted, i + 1, Append(col, sorted[i]), threshold)
         ELSE <<col>> \o columnsFrom(sorted, i + 1, <<sorted[i]>>, threshold)

buildBeatColumns(events) ==
  LET sorted == SortByKey(events, XKeys(events))
  IN columnsFrom(sorted, 2, <<sorted[1]>>, 10)

\* Math.min over the beats of a column
columnAdvance(col) == SetMin({getBeats(col[k]) : k \in DOMAIN col})

RECURSIVE SumAdvances(_, _)
SumAdvances(columns, i) ==
  IF i > Len(columns) THEN 0
  ELSE columnAdvance(columns[i]) + SumAdvances(columns, i + 1)

measureTotal(events) == SumAdvances(buildBeatColumns(events), 1)

\* the loop body without the exemption of short first and last measures
quantizeMeasure_stretch(events, bpm, isFirst, isLast) ==
  LET totalBeats == measureTotal(events)
  IN IF 10 * Abs(totalBeats - bpm) < 16 THEN events         \* |diff| < 0.1
     ELSE IF Len(buildBeatColumns(events)) = 1
       THEN [k \in 1..Len(events) |->
               IF events[k].tiedBeats # 0 THEN events[k]
               ELSE [events[k] EXCEPT !.duration = findClosestDuration(bpm, 1)]]
     ELSE
       LET scaled == [k \in 1..Len(events) |->
                        IF events[k].tiedBeats # 0 THEN events[k]
                        ELSE [events[k] EXCEPT !.duration =
                                findClosestDuration(
                                  beatsOfDuration(events[k].duration) * bpm, totalBeats)]]
           newColumns == buildBeatColumns(scaled)
           remainder == bpm - SumAdvances(newColumns, 1)
           lastCol == newColumns[Len(newColumns)]
           untied == {i \in DOMAIN lastCol : lastCol[i].tiedBeats = 0}
       IN IF 100 * Abs(remainder) > 80 /\ untied # {}      \* |remainder| > 0.05
            THEN LET target == lastCol[SetMax(untied)]
                 IN [k \in 1..Len(events) |->
                       IF scaled[k].ref = target.ref
                         THEN [scaled[k] EXCEPT !.duration =
                                 findClosestDuration(
                                   beatsOfDuration(target.duration) + remainder, 1)]
                         ELSE scaled[k]]
            ELSE scaled

\* one iteration of the loop over measures: the events with their new durations
quantizeMeasure(events, bpm, isFirst, isLast) ==
  LET totalBeats == measureTotal(events)
  IN IF 10 * Abs(totalBeats - bpm) < 16 THEN events         \* |diff| < 0.1
     ELSE IF (isFirst \/ isLast) /\ totalBeats < bpm THEN events
     ELSE IF Len(buildBeatColumns(events)) = 1
       THEN [k \in 1..Len(events) |->
               IF events[k].tiedBeats # 0 THEN events[k]
               ELSE [events[k] EXCEPT !.duration = findClosestDuration(bpm, 1)]]
     ELSE
       LET scaled == [k \in 1..Len(events) |->
                        IF events[k].tiedBeats # 0 THEN events[k]
                        ELSE [events[k] EXCEPT !.duration =
                                findClosestDuration(
                                  beatsOfDuration(events[k].duration) * bpm, totalBeats)]]
           newColumns == buildBeatColumns(scaled)
           remainder == bpm - SumAdvances(newColumns, 1)
           lastCol == newColumns[Len(newColumns)]
           untied == {i \in DOMAIN lastCol : lastCol[i].tiedBeats = 0}
       IN IF 100 * Abs(remainder) > 80 /\ untied # {}      \* |remainder| > 0.05
            THEN LET target == lastCol[SetMax(untied)]
                 IN [k \in 1..Len(events) |->
                       IF scaled[k].ref = target.ref
                         THEN [scaled[k] EXCEPT !.duration =
                                 findClosestDuration(
                                   beatsOfDuration(target.duration) + remainder, 1)]
                         ELSE scaled[k]]
            ELSE scaled

\* highest measureIndex of a staff (0 when none is greater)
maxMeasureIdx(ms, staffIdx) ==
  SetMax({0} \cup {ms[i].measureIndex : i \in {i \in DOMAIN ms : ms[i].staffIndex = staffIdx}})

eventByRef(ns, rs, ref) ==
  CHOOSE e \in Range(ns) \cup Range(rs) : e.ref = ref

measureEventsOf(ns, rs, m) == [k \in 1..Len(m.events) |-> eventByRef(ns, rs, m.events[k])]

\* _quantizeRhythms mutates the events of the measures in place: the result
\* is the duration of every event afterwards
_quantizeRhythms(ms, ts, ns, rs) ==
  LET quantized(i) ==
        quantizeMeasure(measureEventsOf(ns, rs, ms[i]), beatsPerMeasure(ts),
                        ms[i].measureIndex = 0,
                        ms[i].measureIndex = maxMeasureIdx(ms, ms[i].staffIndex))
      changed == UNION {Range(quantized(i)) : i \in DOMAIN ms}
      durationOf(e) == IF \E c \in changed : c.ref = e.ref
                         THEN (CHOOSE c \in changed : c.ref = e.ref).duration
                         ELSE e.duration
  IN [notes |-> [i \in 1..Len(ns) |-> [ns[i] EXCEPT !.duration = durationOf(ns[i])]],
      rests |-> [i \in 1..Len(rs) |-> [rs[i] EXCEPT !.duration = durationOf(rs[i])]]]

(***************************************************************************)
(* _expandRepeats                                                          *)
(***************************************************************************)
RepeatTypes == {"repeat_start", "repeat_end", "repeat_both"}
BarTypes == {"single"} \cup RepeatTypes

\* deduplicate the repeat bars by x (within 10 px); repeat_both wins
RECURSIVE uniqueXBarsFrom(_, _, _)
uniqueXBarsFrom(allBars, i, acc) ==
  IF i > Len(allBars) THEN acc
  ELSE
    LET bar == allBars[i]
        near == {k \in DOMAIN acc : Abs(acc[k].x - bar.x) < 10}
    IN IF near = {}
         THEN uniqueXBarsFrom(allBars, i + 1, Append(acc, [x |-> bar.x, type |-> bar.type]))
       ELSE IF bar.type = "repeat_both"
         THEN uniqueXBarsFrom(allBars, i + 1,
                [acc EXCEPT ![SetMin(near)].type = "repeat_both"])
       ELSE uniqueXBarsFrom(allBars, i + 1, acc)

uniqueXBars(bars) ==
  LET rep == FilterSeq(bars, {b \in Range(bars) : b.type \in RepeatTypes})
      allBars == SortByKey(rep, XKeys(rep))
  IN uniqueXBarsFrom(allBars, 1, <<>>)

\* build the regions; repeatStartX = -1 stands for null
RECURSIVE repeatRegionsFrom(_, _, _)
repeatRegionsFrom(ubars, i, repeatStartX) ==
  IF i > Len(ubars) THEN <<>>
  ELSE
    LET bar == ubars[i]
    IN IF bar.type = "repeat_start"
         THEN repeatRegionsFrom(ubars, i + 1, bar.x)
       ELSE IF bar.type \in {"repeat_end", "repeat_both"}
         THEN LET leftX == IF repeatStartX = -1 THEN 0 ELSE repeatStartX
                  rightX == bar.x
              IN (IF rightX > leftX THEN <<[leftX |-> leftX, rightX |-> rightX]>>
                  ELSE <<>>)
                 \o repeatRegionsFrom(ubars, i + 1,
                      IF bar.type = "repeat_both" THEN bar.x ELSE -1)
       ELSE repeatRegionsFrom(ubars, i + 1, repeatStartX)

\* the regions in processing order: leftX descending
repeatRegions(bars) ==
  LET regions == repeatRegionsFrom(uniqueXBars(bars), 1, -1)
  IN SortByKey(regions, [i \in 1..Len(regions) |-> -regions[i].leftX])

\* one iteration of the region loop on one list (notes or rests)
expandRegion(events, region) ==
  LET xShift == (region.rightX - region.leftX) + 1
      inRegion == FilterSeq(events,
                    {e \in Range(events) : e.x >= region.leftX /\ e.x <= region.rightX})
      shifted == [i \in 1..Len(events) |->
                    IF events[i].x > region.rightX
                      THEN [events[i] EXCEPT !.x = @ + xShift]
                      ELSE events[i]]
  IN shifted \o [i \in 1..Len(inRegion) |->
                   [inRegion[i] EXCEPT !.x = @ + xShift, !.repeated = TRUE]]

RECURSIVE expandRegions(_, _, _)
expandRegions(events, regions, i) ==
  IF i > Len(regions) THEN events
  ELSE expandRegions(expandRegion(events, regions[i]), regions, i + 1)

_expandRepeats(ns, rs, bars) ==
  IF Len(bars) = 0 THEN [notes |-> ns, rests |-> rs]
  ELSE IF ~\E b \in Range(bars) : b.type \in RepeatTypes THEN [notes |-> ns, rests |-> rs]
  ELSE LET regions == repeatRegions(bars)
       IN IF Len(regions) = 0 THEN [notes |-> ns, rests |-> rs]
          ELSE [notes |-> expandRegions(ns, regions, 1),
                rests |-> expandRegions(rs, regions, 1)]

\* the merged list left in the order _expandRepeats returns it
allEventsOf_unsorted(expanded) == expanded.notes \o expanded.rests

\* processSheet: merge notes + rests and sort by staffIndex then x
allEventsOf(expanded) ==
  LET merged == expanded.notes \o expanded.rests
  IN SortByKey(merged, StaffXKeys(merged))

(***************************************************************************)
(* AudioPlaybackService.createCombinedAudio.  Times are in units of 1/64 s *)
(* (secondsPerBeat = 60 / tempo, a 1/16 beat lasts 240 / tempo units).     *)
(***************************************************************************)
TempoChoices == {40, 70, 120, 240}
Voices == {"Soprano", "Alto", "Tenor", "Bass"}

\* the cursor steps back by the duration
beatsToTime_backwards(beats, bpmTempo) == 0 - (beats * 240) \div bpmTempo

\* secondsPerBeat applied to a beat count
beatsToTime(beats, bpmTempo) == (beats * 240) \div bpmTempo

\* staff -> system index, from the detected systems when they are passed,
\* else by pairing the staves that occur among the notes
staffToSystem(sorted, systemsMetadata) ==
  IF Len(systemsMetadata) > 0
    THEN [si \in UNION {Range(systemsMetadata[k]) : k \in DOMAIN systemsMetadata} |->
            SetMax({k \in DOMAIN systemsMetadata : si \in Range(systemsMetadata[k])}) - 1]
    ELSE LET staffIndices == {sorted[i].staffIndex : i \in DOMAIN sorted}
         IN [si \in staffIndices |->
               Cardinality({t \in staffIndices : t < si}) \div 2]

systemOf(map, note) == IF note.staffIndex \in DOMAIN map THEN map[note.staffIndex] ELSE 0

\* the beat columns of one system, left to right
systemColumns(sysNotes) ==
  LET byX == SortByKey(sysNotes, XKeys(sysNotes))
  IN columnsFrom(byX, 2, <<byX[1]>>, 8)

\* all beat columns in playing order: systems ascending, then left to right
RECURSIVE columnsOfSystems(_, _, _, _)
columnsOfSystems(sorted, map, sysList, i) ==
  IF i > Len(sysList) THEN <<>>
  ELSE systemColumns(FilterSeq(sorted,
                       {n \in Range(sorted) : systemOf(map, n) = sysList[i]}))
       \o columnsOfSystems(sorted, map, sysList, i + 1)

renderColumns(ns, systemsMetadata) ==
  LET sorted == SortByKey(ns, StaffXKeys(ns))
      map == staffToSystem(sorted, systemsMetadata)
      present == {systemOf(map, n) : n \in Range(sorted)}
      sysList == [r \in 1..Cardinality(present) |->
                    CHOOSE s \in present : Cardinality({t \in present : t < s}) = r - 1]
  IN columnsOfSystems(sorted, map, sysList, 1)

\* globalTime at the start of column i
RECURSIVE columnStart(_, _, _)
columnStart(columns, i, bpmTempo) ==
  IF i <= 1 THEN 0
  ELSE columnStart(columns, i - 1, bpmTempo)
       + beatsToTime(columnAdvance(columns[i - 1]), bpmTempo)

RECURSIVE SumField(_, _)
SumField(vals, i) == IF i > Len(vals) THEN 0 ELSE vals[i] + SumField(vals, i + 1)

createCombinedAudio(ns, bpmTempo, systemsMetadata) ==
  IF Len(ns) = 0 THEN [fileUri |-> "", timingMap |-> <<>>, chordMeta |-> <<>>,
                       totalDuration |-> 0]
  ELSE
    LET columns == renderColumns(ns, systemsMetadata)
        realNotes(col) == FilterSeq(col, {n \in Range(col) : n.type # "rest"})
        entry(i) ==
          [time |-> columnStart(columns, i, bpmTempo),
           xSum |-> SumField([k \in 1..Len(columns[i]) |-> columns[i][k].x], 1),
           ySum |-> SumField([k \in 1..Len(columns[i]) |-> columns[i][k].y], 1),
           count |-> Len(columns[i]),
           staffIndex |-> columns[i][1].staffIndex,
           \* the staves of the events of col, which all start at this time
           staves |-> {columns[i][k].staffIndex : k \in DOMAIN columns[i]},
           isRest |-> Len(realNotes(columns[i])) = 0]
        chord(i) ==
          [offsetSamples |-> (columnStart(columns, i, bpmTempo) * 44100) \div 64,
           notes |-> [k \in 1..Len(realNotes(columns[i])) |->
                        [midiNote |-> realNotes(columns[i])[k].midiNote,
                         dur |-> beatsToTime(getBeats(realNotes(columns[i])[k]), bpmTempo)]]]
        sounding == {i \in DOMAIN columns : Len(realNotes(columns[i])) > 0}
    IN [fileUri |-> "wav",
        timingMap |-> [i \in 1..Len(columns) |-> entry(i)],
        chordMeta |-> [r \in 1..Cardinality(sounding) |->
                         chord(CHOOSE i \in sounding :
                                 Cardinality({t \in sounding : t < i}) = r - 1)],
        totalDuration |-> columnStart(columns, Len(columns) + 1, bpmTempo)]

(***************************************************************************)
(* What the image analysis hands to the stages modelled here               *)
(***************************************************************************)
Columns == {XStep * k : k \in 1..MaxX}

\* a head as _detectDottedNotes returns it, with the fields later stages add
HeadOf(staffIdx, x, y, acc, dur, stem) ==
  [ref |-> 0, type |-> "note", x |-> x, y |-> y, staffIndex |-> staffIdx,
   accidental |-> acc, duration |-> dur, stemDir |-> stem,
   pitch |-> "", midiNote |-> 0, staffPosition |-> 0, isBassClef |-> FALSE,
   clefType |-> "", tiedBeats |-> 0, voice |-> "", repeated |-> FALSE]

\* a rest as _detectRests pushes it
RestOf(k, staffIdx, x, dur) ==
  [ref |-> 100 + k, type |-> "rest", x |-> x,
   y |-> (staves[staffIdx][1] + staves[staffIdx][3] + 1) \div 2,
   staffIndex |-> staffIdx, accidental |-> NoAccidental, duration |-> dur,
   stemDir |-> 0, pitch |-> "", midiNote |-> 0, staffPosition |-> 0,
   isBassClef |-> FALSE, clefType |-> "", tiedBeats |-> 0,
   voice |-> IF staffIdx % 2 = 1 THEN "Bass" ELSE "Soprano", repeated |-> FALSE]

\* row of staff position p on a staff
RowOf(staffIdx, p) == staves[staffIdx][4] - (p * StaffSpacing) \div 2

\* _detectNoteHeads: minNoteGap and the duplicate check
minNoteGap == Max2(8, StaffSpacing)
dupCheck(a, b) ==
  /\ a.staffIndex = b.staffIndex
  /\ Abs(a.x - b.x) < minNoteGap
  /\ Abs(a.y - b.y) < minNoteGap

\* _detectNoteHeads returns the heads sorted by staffIndex then x; heads of
\* one staff and x are found top to bottom
scanKey(h) ==
  (h.staffIndex * (XStep * (MaxX + 1)) + h.x) * ImageHeight + h.y

\* the sequences of at most n heads drawn from choices that the scan can return
RECURSIVE HeadSeqs(_, _)
HeadSeqs(choices, n) ==
  IF n = 0 THEN {<<>>}
  ELSE LET prev == HeadSeqs(choices, n - 1)
       IN prev \cup
          {Append(s, [c EXCEPT !.ref = n]) :
             <<s, c>> \in {sc \in {p \in prev : Len(p) = n - 1} \X choices :
                            /\ \A k \in DOMAIN sc[1] : ~dupCheck(sc[1][k], sc[2])
                            /\ (sc[1] # <<>> =>
                                  scanKey(sc[1][Len(sc[1])]) < scanKey(sc[2]))}}

KeySignatures ==
  {[type |-> "None", count |-> 0]}
  \cup {[type |-> t, count |-> c] : t \in {"Sharps", "Flats"}, c \in 0..7}

BarOf(x, staffIdx, type) == [x |-> x, staffIndex |-> staffIdx, type |-> type]

\* a bar line between columns k and k + 1, clear of the note heads of both
BarX(k) == XStep * k + XStep \div 2

SeparateSystems == [k \in 1..NumStaves |-> <<k - 1>>]
PairedSystems ==
  [k \in 1..((NumStaves + 1) \div 2) |->
     IF 2 * k - 1 < NumStaves THEN <<2 * k - 2, 2 * k - 1>> ELSE <<2 * k - 2>>]
DefaultClefs == [si \in StaffIndices |-> IF si % 2 = 1 THEN "bass" ELSE "treble"]
AllVoices == [v \in Voices |-> TRUE]

TypeOK ==
  /\ pc \in {"mapToPitches", "detectTies", "assignVoices", "detectRests",
             "groupIntoMeasures", "quantizeRhythms", "expandRepeats",
             "returned", "noNotes", "audioReady", "mixing", "mixed", "rendering",
             "loadImage", "detectKeySignature", "ocrConfidenceGate"}
  /\ keySignature.type \in {"None", "Sharps", "Flats"}
  /\ keySignature.count \in 0..10
  /\ tempo \in 40..240
  /\ service.isPlaying \in BOOLEAN /\ service.sound.loaded \in BOOLEAN
  /\ service._tempFileUri \in Nat /\ service.sound.uri \in Nat
  /\ screen.isPlaying \in BOOLEAN /\ screen.isPaused \in BOOLEAN
  /\ screen.mounted \in BOOLEAN /\ screen.audioFileUri \in Nat
  /\ cache \subseteq 1..(clock - 1)
  /\ \A k \in DOMAIN calls : calls[k].uri \in 1..(clock - 1)
  /\ stopped \in BOOLEAN

(***************************************************************************)
(* The stages of processSheet after symbol detection                       *)
(***************************************************************************)
inputs == <<keySignature, timeSignature, clefs, systems, barLines, noteHeads,
            tieArcs, restsFound, voiceSelection, tempo>>

\* the state of the sample mixer, which these stages leave alone
mixVars == <<noteAudio, master, sf2, soundFont, soundFontReady, loadPc, renders,
            image, accepted, playVars>>

MapToPitches ==
  /\ pc = "mapToPitches"
  /\ notes' = _mapToPitches(noteHeads, systems, keySignature, clefs, barLines)
  /\ pc' = "detectTies"
  /\ UNCHANGED <<inputs, mixVars, race, rests, measures, score, audio>>

DetectTies ==
  /\ pc = "detectTies"
  /\ notes' = _detectTies(tieArcs, notes)
  /\ pc' = "assignVoices"
  /\ UNCHANGED <<inputs, mixVars, race, rests, measures, score, audio>>

AssignVoices ==
  /\ pc = "assignVoices"
  /\ notes' = _assignVoices(notes)
  /\ pc' = "detectRests"
  /\ UNCHANGED <<inputs, mixVars, race, rests, measures, score, audio>>

DetectRests ==
  /\ pc = "detectRests"
  /\ rests' = _detectRests(restsFound, notes)
  /\ pc' = "groupIntoMeasures"
  /\ UNCHANGED <<inputs, mixVars, race, notes, measures, score, audio>>

GroupIntoMeasures ==
  /\ pc = "groupIntoMeasures"
  /\ measures' = _groupIntoMeasures(notes, rests, barLines)
  /\ pc' = "quantizeRhythms"
  /\ UNCHANGED <<inputs, mixVars, race, notes, rests, score, audio>>

QuantizeRhythms ==
  /\ pc = "quantizeRhythms"
  /\ LET q == _quantizeRhythms(measures, timeSignature, notes, rests)
     IN notes' = q.notes /\ rests' = q.rests
  /\ pc' = "expandRepeats"
  /\ UNCHANGED <<inputs, mixVars, race, measures, score, audio>>

\* steps 19 to the return of processSheet: expand, merge, sort; the returned
\* promise settles processScore's race unless its timer already has
ExpandRepeats ==
  /\ pc = "expandRepeats"
  /\ score' = allEventsOf(_expandRepeats(notes, rests, barLines))
  /\ pc' = "returned"
  /\ race' = IF race = "pending" THEN "result" ELSE race
  /\ UNCHANGED <<inputs, mixVars, notes, rests, measures, audio>>

(***************************************************************************)
(* PlaybackScreen.prepareAudio                                             *)
(***************************************************************************)
filteredNotes(events, selection) ==
  FilterSeq(events, {n \in Range(events) : n.voice \in Voices /\ selection[n.voice]})

PrepareAudio ==
  /\ pc = "returned"
  /\ race = "result"
  /\ LET filtered == filteredNotes(score, voiceSelection)
     IN IF Len(filtered) = 0
          THEN pc' = "noNotes" /\ UNCHANGED audio
          ELSE /\ audio' = createCombinedAudio(filtered, tempo, <<>>)
               /\ pc' = "audioReady"
  /\ UNCHANGED <<inputs, mixVars, race, notes, rests, measures, score>>

Next ==
  \/ MapToPitches
  \/ DetectTies
  \/ AssignVoices
  \/ DetectRests
  \/ GroupIntoMeasures
  \/ QuantizeRhythms
  \/ ExpandRepeats
  \/ PrepareAudio

MidiNotes == 0..127

\* the SoundFontService singleton as constructed: nothing loaded.
\* _sampleData is null while hasSampleData is FALSE; _noteToZone holds the
\* index in _zones of a note's cached zone, 0 for a note without an entry
NoSoundFont ==
  [_loaded |-> FALSE, _loading |-> FALSE, _sampleData |-> <<>>,
   hasSampleData |-> FALSE, _sampleHeaders |-> <<>>, _allZones |-> <<>>,
   _zones |-> <<>>, _noteToZone |-> [n \in MidiNotes |-> 0]]

\* no SoundFont file: loadSoundFont is not called
NoFile ==
  [riffTag |-> "", formType |-> "", chunks |-> {}, smpl |-> <<>>,
   shdr |-> <<>>, zoneGens |-> <<>>]

\* an image whose classifiers are not consulted
NoImage ==
  [staves |-> NumStaves, systems |-> <<>>, clefs |-> <<>>, barLines |-> <<>>,
   isInitialized |-> FALSE, keyC |-> 0, keyD |-> 0,
   ocrModel |-> FALSE, rawNoteHeads |-> <<>>, ocr |-> <<>>]

\* the renderer before app initialization calls loadSoundFont
SoundIdle ==
  /\ soundFont = NoSoundFont
  /\ soundFontReady = FALSE
  /\ loadPc = "idle"
  /\ renders = <<>>

NoAudio == [fileUri |-> "", timingMap |-> <<>>, chordMeta |-> <<>>, totalDuration |-> 0]

\* the state in which _mapToPitches is called, for given image contents
InitWith(ks, ts, cl, sys, bars, heads, arcs, found, sel, bpm) ==
  /\ pc = "mapToPitches"
  /\ keySignature = ks
  /\ timeSignature = ts
  /\ clefs = cl
  /\ systems = sys
  /\ barLines = bars
  /\ noteHeads = heads
  /\ tieArcs = arcs
  /\ restsFound = found
  /\ voiceSelection = sel
  /\ tempo = bpm
  /\ notes = <<>>
  /\ rests = <<>>
  /\ measures = <<>>
  /\ score = <<>>
  /\ audio = NoAudio
  /\ noteAudio = <<>>
  /\ master = <<>>
  /\ sf2 = NoFile
  /\ SoundIdle
  /\ image = NoImage
  /\ accepted = <<>>
  /\ race = "pending"
  /\ PlayIdle

CommonTime == [beats |-> 4, beatType |-> 4]

(***************************************************************************)
(* Pitch mapping: one head anywhere around its staff under every clef and  *)
(* key signature, or several heads on two staff positions around a bar     *)
(* line                                                                     *)
(***************************************************************************)
WideHeads ==
  {HeadOf(0, XStep, y, acc, "quarter", 0) :
     y \in StaffRows(0), acc \in Accidentals \cup {NoAccidental}}

\* heads on the F space and the B line of staff 0 and on the F space of
\* staff 1, in the first three columns; a bar line after the second column
NarrowHeads ==
  {HeadOf(c[1][1], XStep * k, RowOf(c[1][1], c[1][2]), c[2], "quarter", 0) :
     c \in ({<<0, 1>>} \X (Accidentals \cup {NoAccidental}))
           \cup ({<<0, 4>>} \X {NoAccidental, "flat"})
           \cup ({<<1, 1>>} \X {NoAccidental, "sharp"}),
     k \in 1..3}

NarrowBars ==
  {<<>>, <<BarOf(BarX(2), 0, "single")>>,
   <<BarOf(BarX(2), 0, "single"), BarOf(BarX(2), 1, "single")>>}

InitPitch ==
  \/ \E h \in WideHeads, ks \in KeySignatures, c \in ClefTypes :
       InitWith(ks, CommonTime, [DefaultClefs EXCEPT ![0] = c], SeparateSystems,
                <<>>, <<[h EXCEPT !.ref = 1]>>, {}, <<>>, AllVoices, 120)
  \/ \E heads \in HeadSeqs(NarrowHeads, MaxHeads), bars \in NarrowBars,
        ks \in {[type |-> "None", count |-> 0], [type |-> "Sharps", count |-> 1],
                [type |-> "Flats", count |-> 1]} :
       /\ heads # <<>>
       /\ InitWith(ks, CommonTime, [si \in StaffIndices |-> "treble"],
                   SeparateSystems, bars, heads, {}, <<>>, AllVoices, 120)

SpecPitch == InitPitch /\ [][Next]_vars

(***************************************************************************)
(* Properties of pitch mapping                                             *)
(***************************************************************************)
Returned == pc \in {"returned", "noNotes", "audioReady"}

\* C1: every note of the returned score has an integer midiNote in 21..108,
\* whatever the clef, the staff position (also beyond the clef table), the
\* key signature and the inline accidental.
C1_MidiInPianoRange ==
  Returned => \A i \in DOMAIN score :
                score[i].type = "note" => score[i].midiNote \in 21..108

\* a returned note above the clef table whose unclamped pitch exceeds 108
C1_Witness ==
  /\ Returned
  /\ \E i \in DOMAIN score :
       /\ score[i].type = "note"
       /\ score[i].staffPosition > 13
       /\ naturalMidi(score[i].clefType, score[i].staffPosition) > 108
       /\ score[i].midiNote = 108

\* the heads whose inline accidental reaches note n: same staff, same staff
\* position, at or left of n, no bar line of the staff in between
reaching(ns, bars, n) ==
  {h \in Range(ns) :
     /\ h.accidental \in Accidentals
     /\ h.staffIndex = n.staffIndex
     /\ h.staffPosition = n.staffPosition
     /\ h.x <= n.x
     /\ ~\E b \in Range(bars) :
           b.staffIndex = n.staffIndex /\ h.x < b.x /\ b.x <= n.x}

\* the accidental in force at n: that of the rightmost such head
inForce(ns, bars, n) ==
  IF reaching(ns, bars, n) = {} THEN NoAccidental
  ELSE (CHOOSE h \in reaching(ns, bars, n) :
          \A g \in reaching(ns, bars, n) : g.x <= h.x).accidental

\* C7: an inline accidental at position p of staff s acts on exactly the
\* notes at p on s at or right of it within its measure: every note is
\* pitched with the accidental of the nearest such head at or left of it in
\* its measure, and by the key signature alone when there is none (so the
\* state is reset at every bar line).
C7_AccidentalScope ==
  pc = "detectTies" =>
    \A i \in DOMAIN notes :
      notes[i].midiNote =
        pitchOf(keySignature, notes[i].clefType, notes[i].staffPosition,
                inForce(notes, barLines, notes[i]))

\* a sharp carried to a later note of the measure and dropped after the bar line
C7_Witness ==
  /\ pc = "detectTies"
  /\ \E a, b, c \in Range(notes) :
       /\ a.staffIndex = b.staffIndex /\ b.staffIndex = c.staffIndex
       /\ a.staffPosition = b.staffPosition /\ b.staffPosition = c.staffPosition
       /\ a.x < b.x /\ b.x < c.x
       /\ a.accidental = "sharp" /\ b.accidental = NoAccidental
       /\ c.accidental = NoAccidental
       /\ \E bar \in Range(barLines) :
            bar.staffIndex = a.staffIndex /\ b.x < bar.x /\ bar.x <= c.x
       /\ ~\E bar \in Range(barLines) :
            bar.staffIndex = a.staffIndex /\ a.x < bar.x /\ bar.x <= b.x
       /\ b.midiNote = a.midiNote
       /\ c.midiNote = a.midiNote - 1

accidentalOffset(acc) ==
  IF acc = "sharp" THEN 1 ELSE IF acc = "flat" THEN -1 ELSE 0

\* C8: a note whose position has an accidental in force is emitted at the
\* clef table's natural pitch plus 1 (sharp), minus 1 (flat) or plus 0
\* (natural), then clamped, whatever the key signature.
C8_AccidentalOverridesKey ==
  pc = "detectTies" =>
    \A i \in DOMAIN notes :
      inForce(notes, barLines, notes[i]) \in Accidentals =>
        notes[i].midiNote =
          clampMidi(naturalMidi(notes[i].clefType, notes[i].staffPosition)
                    + accidentalOffset(inForce(notes, barLines, notes[i])))

\* a flat on a letter the key signature sharpens
C8_Witness ==
  /\ pc = "detectTies"
  /\ keySignature.type = "Sharps"
  /\ \E i \in DOMAIN notes :
       /\ notes[i].accidental = "flat"
       /\ notes[i].pitch \in keySigNotes(keySignature)
       /\ notes[i].midiNote =
            naturalMidi(notes[i].clefType, notes[i].staffPosition) - 1

(***************************************************************************)
(* Repeats: quarter notes on the first two staves, at most one rest, and   *)
(* up to two bar lines of any type on staff 0.  _filterBarLines keeps a    *)
(* bar line that is more than spacing * 0.5 away from the heads of its     *)
(* staff and at least spacing * 6 right of the bar line before it.         *)
(***************************************************************************)
BarSlots == 1..(MaxX - 1)

BarSeqs(types) ==
  {<<>>}
  \cup {<<BarOf(BarX(a), 0, t)>> : a \in BarSlots, t \in types}
  \cup {<<BarOf(BarX(ab[1]), 0, tu[1]), BarOf(BarX(ab[2]), 0, tu[2])>> :
          ab \in {c \in BarSlots \X BarSlots :
                    BarX(c[2]) - BarX(c[1]) >= 6 * StaffSpacing},
          tu \in types \X types}

RepeatHeads ==
  {HeadOf(si, XStep * k, RowOf(si, 1), NoAccidental, "quarter", 0) :
     si \in 0..1, k \in 1..MaxX}

RepeatRests == {<<>>, <<RestOf(1, 1, XStep * 3, "quarter")>>}

InitRepeat ==
  \E heads \in HeadSeqs(RepeatHeads, MaxHeads), bars \in BarSeqs(BarTypes),
     found \in RepeatRests :
    /\ heads # <<>>
    /\ InitWith([type |-> "None", count |-> 0], CommonTime, DefaultClefs,
                SeparateSystems, bars, heads, {}, found, AllVoices, 120)

SpecRepeat == InitRepeat /\ [][Next]_vars

\* C2: the events of the returned score are ordered by (staffIndex, x): from
\* one event to the next the staffIndex never decreases and, on the same
\* staff, x never decreases, also after repeat expansion has shifted and
\* duplicated events.
C2_ScoreOrdered ==
  Returned =>
    \A i \in 1..(Len(score) - 1) :
      /\ score[i].staffIndex <= score[i + 1].staffIndex
      /\ (score[i].staffIndex = score[i + 1].staffIndex
            => score[i].x <= score[i + 1].x)

\* a returned score in which the copy of a repeated note stands before a
\* note that the expansion shifted, with a rest on the other staff
C2_Witness ==
  /\ Returned
  /\ \E i, j \in DOMAIN score :
       /\ i < j
       /\ score[i].repeated /\ ~score[j].repeated
       /\ score[i].staffIndex = score[j].staffIndex
       /\ score[i].x < score[j].x
       /\ \E n \in Range(notes) : n.ref = score[j].ref /\ n.x < score[j].x
  /\ \E k \in DOMAIN score : score[k].type = "rest"

\* the multiset of events by (x, staffIndex, midiNote)
eventKey(e) == <<e.x, e.staffIndex, e.midiNote>>

sameEvents(a, b) ==
  \A key \in {eventKey(e) : e \in Range(a) \cup Range(b)} :
    Cardinality({i \in DOMAIN a : eventKey(a[i]) = key})
      = Cardinality({i \in DOMAIN b : eventKey(b[i]) = key})

ofType(events, t) == FilterSeq(events, {e \in Range(events) : e.type = t})

\* C4: repeat expansion is idempotent: _expandRepeats applied to its own
\* output with the same bar lines yields the same multiset of events,
\* compared by (x, staffIndex, midiNote).
C4_ExpandRepeatsIdempotent ==
  pc = "returned" =>
    LET again == _expandRepeats(ofType(score, "note"), ofType(score, "rest"), barLines)
    IN sameEvents(score, again.notes \o again.rests)

\* the x positions at which the event with reference r occurs in the score
occurrences(r) == {i \in DOMAIN score : score[i].ref = r}

regionsOf(e) ==
  {k \in DOMAIN repeatRegions(barLines) :
     /\ repeatRegions(barLines)[k].leftX <= e.x
     /\ e.x <= repeatRegions(barLines)[k].rightX}

\* C5: every event inside a repeat region occurs exactly twice in the
\* output, the original and one copy flagged _repeated that lies
\* rightX - leftX + 1 to the right of it; every event outside all regions
\* occurs exactly once; every copy lies after all originals of its region
\* and before every event that followed the region.
C5_RegionsPlayedTwice ==
  pc = "returned" =>
    LET regions == repeatRegions(barLines)
        events == Range(notes) \cup Range(rests)
        original(e) == {i \in occurrences(e.ref) : ~score[i].repeated}
        copies(e) == {i \in occurrences(e.ref) : score[i].repeated}
    IN \A e \in events :
         IF regionsOf(e) = {}
           THEN Cardinality(occurrences(e.ref)) = 1 /\ copies(e) = {}
           ELSE /\ Cardinality(original(e)) = 1
                /\ Cardinality(copies(e)) = 1
                /\ \A k \in regionsOf(e), o \in original(e), c \in copies(e) :
                     /\ score[c].x
                          = score[o].x + (regions[k].rightX - regions[k].leftX + 1)
                     /\ \A f \in events : \A i \in occurrences(f.ref) :
                          /\ (k \in regionsOf(f) /\ ~score[i].repeated
                                => score[i].x < score[c].x)
                          /\ (f.x > regions[k].rightX => score[c].x < score[i].x)

(***************************************************************************)
(* Rhythm: heads of three durations on staff 0 under 3/4 and 4/4, with up  *)
(* to two single bar lines                                                 *)
(***************************************************************************)
QuantDurations == {"eighth", "quarter", "whole"}

QuantHeads ==
  {HeadOf(0, XStep * k, RowOf(0, 1), NoAccidental, d, 0) :
     k \in 1..MaxX, d \in QuantDurations}

TimeSignatures == {[beats |-> 3, beatType |-> 4], CommonTime}

InitQuant ==
  \E heads \in HeadSeqs(QuantHeads, MaxHeads), bars \in BarSeqs({"single"}),
     ts \in TimeSignatures :
    /\ heads # <<>>
    /\ InitWith([type |-> "None", count |-> 0], ts, DefaultClefs,
                SeparateSystems, bars, heads, {}, <<>>, AllVoices, 120)

SpecQuant == InitQuant /\ [][Next]_vars

\* a measure is the first or the last of its staff
isOuterMeasure(m) ==
  \/ m.measureIndex = 0
  \/ ~\E o \in Range(measures) :
        o.staffIndex = m.staffIndex /\ o.measureIndex > m.measureIndex

\* the durations of the events of measure m, in the order of its event list
durationsOf(ns, rs, m) ==
  [k \in DOMAIN m.events |-> eventByRef(ns, rs, m.events[k]).duration]

\* C22 as stated: rhythm quantization changes no duration in the first or
\* the last measure of a staff, whatever the beat total of that measure
C22_OuterMeasuresUntouched ==
  [][pc = "quantizeRhythms" =>
       \A i \in DOMAIN measures :
         isOuterMeasure(measures[i]) =>
           durationsOf(notes', rests', measures[i])
             = durationsOf(notes, rests, measures[i])]_vars

\* C22: rhythm quantization changes no duration in a first or last measure
\* of a staff whose beat total is below the measure length of the time
\* signature
C22_ShortOuterMeasuresUntouched ==
  [][pc = "quantizeRhythms" =>
       \A i \in DOMAIN measures :
         (/\ isOuterMeasure(measures[i])
          /\ measureTotal(measureEventsOf(notes, rests, measures[i]))
               < beatsPerMeasure(timeSignature)) =>
           durationsOf(notes', rests', measures[i])
             = durationsOf(notes, rests, measures[i])]_vars

\* quantization has run over a first or last measure of two beat columns
\* that is at least a quarter beat short
C22_Witness ==
  /\ pc = "expandRepeats"
  /\ \E i \in DOMAIN measures :
       LET events == measureEventsOf(notes, rests, measures[i])
       IN /\ isOuterMeasure(measures[i])
          /\ Len(buildBeatColumns(events)) >= 2
          /\ measureTotal(events) + 4 <= beatsPerMeasure(timeSignature)

\* C24: over the events of any one measure of a staff, the beat total the
\* quantizer computes equals the beats by which the renderer's clock
\* advances over the same events
C24_QuantizerMatchesRenderer ==
  \A i \in DOMAIN measures :
    LET events == measureEventsOf(notes, rests, measures[i])
    IN measureTotal(events) = SumAdvances(systemColumns(events), 1)

\* C3: after rhythm quantization, under a time signature T/4, the beat total
\* of every measure (the sum of its beat-column advances) lies within 0.01
\* of T, and within 0.5 of T in the first and the last measure of a staff.
\* Totals are in 1/16 beats.
C3_MeasureTotals ==
  (pc = "expandRepeats" /\ timeSignature.beatType = 4) =>
    \A i \in DOMAIN measures :
      LET total == measureTotal(measureEventsOf(notes, rests, measures[i]))
          T == 16 * timeSignature.beats
      IN IF isOuterMeasure(measures[i])
           THEN Abs(total - T) <= 8
           ELSE 100 * Abs(total - T) <= 16

(***************************************************************************)
(* Ties: quarter and half notes on two staff positions of staff 0 (far     *)
(* enough apart to stand in one column) and quarter notes on staff 1, with *)
(* an arc drawn or not between each head and the next one found            *)
(***************************************************************************)
TieColumns == 1..4

TieHeads ==
  {HeadOf(0, XStep * k, RowOf(0, pd[1]), NoAccidental, pd[2], 0) :
     k \in TieColumns, pd \in {<<0, "quarter">>, <<0, "half">>, <<8, "quarter">>}}
  \cup {HeadOf(1, XStep * k, RowOf(1, 0), NoAccidental, "quarter", 0) :
          k \in TieColumns}

ArcChoices == SUBSET {<<a, a + 1>> : a \in 1..(MaxHeads - 1)}

InitTies ==
  \E heads \in HeadSeqs(TieHeads, MaxHeads), arcs \in ArcChoices :
    /\ heads # <<>>
    /\ InitWith([type |-> "None", count |-> 0], CommonTime, DefaultClefs,
                SeparateSystems, <<>>, heads, arcs, <<>>, AllVoices, 120)

SpecTies == InitTies /\ [][Next]_vars

\* the notes handed to _detectTies
mappedNotes == _mapToPitches(noteHeads, systems, keySignature, clefs, barLines)

\* a comes before b on their staff, left to right (heads of one x in the
\* order they were found)
precedes(a, b) ==
  /\ a.staffIndex = b.staffIndex
  /\ (a.x < b.x \/ (a.x = b.x /\ a.ref < b.ref))

consecutive(S, a, b) ==
  precedes(a, b) /\ ~\E c \in S : precedes(a, c) /\ precedes(c, b)

\* two consecutive notes of one pitch joined by a tie arc: an arc is looked
\* for between notes at most 8 staff spacings apart
tieJoined(S, a, b) ==
  /\ a.midiNote = b.midiNote
  /\ <<a.ref, b.ref>> \in tieArcs
  /\ b.x - a.x >= 1
  /\ b.x - a.x <= 2 * (staves[a.staffIndex][4] - staves[a.staffIndex][0])
  /\ consecutive(S, a, b)

continuesChain(S, b) == \E a \in S : tieJoined(S, a, b)
startsChain(S, a) == ~continuesChain(S, a) /\ \E b \in S : tieJoined(S, a, b)

\* the chain that begins at a: a and the notes after it up to the first gap
chainOf(S, a) ==
  {b \in S :
     \/ b = a
     \/ /\ precedes(a, b)
        /\ \A d \in S :
             (precedes(a, d) /\ (d = b \/ precedes(d, b))) => continuesChain(S, d)}

RECURSIVE SumBeatsOf(_)
SumBeatsOf(S) ==
  IF S = {} THEN 0
  ELSE LET n == CHOOSE n \in S : TRUE
       IN beatsOfDuration(n.duration) + SumBeatsOf(S \ {n})

\* C6: of every chain of k >= 2 consecutive same-pitch notes of one staff
\* joined by tie arcs, tie merging keeps only the first note, sets its
\* tiedBeats to the sum of the beat values of all k notes and removes the
\* other k - 1 notes; no note outside a chain is removed or changed.
C6_TieChainsCollapse ==
  pc = "assignVoices" =>
    LET S == Range(mappedNotes)
    IN /\ {n.ref : n \in Range(notes)} = {m.ref : m \in {m \in S : ~continuesChain(S, m)}}
       /\ Len(notes) = Cardinality({n.ref : n \in Range(notes)})
       /\ \A n \in Range(notes) :
            \E m \in S :
              /\ m.ref = n.ref
              /\ IF startsChain(S, m)
                   THEN n.tiedBeats = SumBeatsOf(chainOf(S, m))
                   ELSE n = m

\* three quarter notes of one pitch joined by two arcs have become one note
\* of three beats, labelled dotted_half
C6_Witness ==
  /\ pc = "assignVoices"
  /\ Len(noteHeads) = 3
  /\ \A i \in DOMAIN noteHeads : noteHeads[i].duration = "quarter"
  /\ tieArcs = {<<1, 2>>, <<2, 3>>}
  /\ Len(notes) = 1
  /\ notes[1].ref = 1
  /\ notes[1].tiedBeats = 48
  /\ notes[1].duration = "dotted_half"

(***************************************************************************)
(* Playback: quarter and eighth notes in the first two columns of every    *)
(* staff, an arc or none between the first two heads, at most one rest,    *)
(* every staff its own system or the staves paired, three voice selections *)
(* and every tempo                                                         *)
(***************************************************************************)
AudioHeads ==
  {HeadOf(si, XStep * k, RowOf(si, 1), NoAccidental, d, 0) :
     si \in StaffIndices, k \in 1..2, d \in {"quarter", "eighth"}}

AudioRests ==
  {<<>>, <<RestOf(1, NumStaves - 1, XStep * 3, "quarter")>>,
   <<RestOf(1, 0, XStep * 4, "half")>>}

VoiceSelections ==
  {AllVoices,
   [v \in Voices |-> v = "Soprano"],
   [v \in Voices |-> v \in {"Tenor", "Bass"}]}

InitAudio ==
  \E heads \in HeadSeqs(AudioHeads, MaxHeads), arcs \in {{}, {<<1, 2>>}},
     found \in AudioRests, sys \in {SeparateSystems, PairedSystems},
     sel \in VoiceSelections, bpm \in TempoChoices :
    /\ heads # <<>>
    /\ InitWith([type |-> "None", count |-> 0], CommonTime, DefaultClefs,
                sys, <<>>, heads, arcs, found, sel, bpm)

SpecAudio == InitAudio /\ [][Next]_vars

\* C9: in the timing map returned by createCombinedAudio times never
\* decrease from one entry to the next, across beat columns and systems,
\* for notes, rests and tied notes.
C9_TimingMapMonotonic ==
  pc = "audioReady" =>
    \A i \in 1..(Len(audio.timingMap) - 1) :
      audio.timingMap[i].time <= audio.timingMap[i + 1].time

\* a timing map that runs over two systems, with a tied note and a rest
C9_Witness ==
  /\ pc = "audioReady"
  /\ Len(audio.timingMap) >= 3
  /\ \E i \in DOMAIN audio.timingMap : audio.timingMap[i].isRest
  /\ \E n \in Range(filteredNotes(score, voiceSelection)) : n.tiedBeats # 0
  /\ LET present == {n.staffIndex : n \in Range(filteredNotes(score, voiceSelection))}
     IN /\ Cardinality(present) = 3
        /\ \E i \in 1..(Len(audio.timingMap) - 1) :
             /\ audio.timingMap[i].staffIndex < SetMax(present)
             /\ audio.timingMap[i + 1].staffIndex = SetMax(present)
             /\ audio.timingMap[i].time < audio.timingMap[i + 1].time

\* the detected system of a staff
detectedSystem(si) == CHOOSE k \in DOMAIN systems : si \in Range(systems[k])

\* C10: systems are rendered one after another in the audio the playback
\* screen prepares from the voice-filtered notes: no beat column holds
\* notes of two detected systems, and every timing-map entry (note onset)
\* of an earlier detected system is no later than those of a later system.
C10_SystemsSequential ==
  pc = "audioReady" =>
    LET tm == audio.timingMap
    IN /\ \A i \in DOMAIN tm : \A s, t \in tm[i].staves :
            detectedSystem(s) = detectedSystem(t)
       /\ \A i, j \in DOMAIN tm : \A s \in tm[i].staves, t \in tm[j].staves :
            detectedSystem(s) < detectedSystem(t) => tm[i].time <= tm[j].time

(***************************************************************************)
(* The sample mixer of createCombinedAudio.  A sample is an integer in     *)
(* units of 1/FullScale (FullScale is the sample value 1.0); FloatMax is   *)
(* the largest finite magnitude a Float32 holds, and the three non-finite  *)
(* floats lie beyond it.                                                   *)
(***************************************************************************)
FullScale == 2    \* the sample value 1.0
FloatMax  == 6    \* the largest finite sample magnitude
NoteLen   == 2    \* samples in one rendered note
MaxNotes  == 3    \* notes mixed into one master buffer

Infinity == FloatMax + 1
NaN == FloatMax + 2

isFinite(x) == -FloatMax <= x /\ x <= FloatMax

\* Float32 addition: master[start + i] += noteAudio[i]
floatAdd(a, b) ==
  IF a = NaN \/ b = NaN THEN NaN
  ELSE IF a = Infinity THEN (IF b = -Infinity THEN NaN ELSE Infinity)
  ELSE IF a = -Infinity THEN (IF b = Infinity THEN NaN ELSE -Infinity)
  ELSE IF b = Infinity \/ b = -Infinity THEN b
  ELSE IF a + b > FloatMax THEN Infinity
  ELSE IF a + b < -FloatMax THEN -Infinity
  ELSE a + b

\* Float32 division of a finite sample by a finite positive peak, rounded to
\* the nearest representable value
floatDiv(x, peak) ==
  LET q == (2 * Abs(x) * FullScale + peak) \div (2 * peak)
  IN IF x < 0 THEN -q ELSE q

\* the inner loop of the mix: add one note into the master buffer at start
mixNote(buffer, start, samples) ==
  LET len == Min2(Len(samples), Len(buffer) - start)
  IN [i \in 1..Len(buffer) |->
        IF start < i /\ i <= start + len
          THEN floatAdd(buffer[i], samples[i - start])
          ELSE buffer[i]]

RECURSIVE mixAll(_, _, _)
mixAll(buffer, entries, k) ==
  IF k > Len(entries) THEN buffer
  ELSE mixAll(mixNote(buffer, entries[k].offsetSamples, entries[k].samples),
              entries, k + 1)

sanitize_keep(buffer) == buffer

\* replace any NaN / Infinity with 0
sanitize(buffer) ==
  [i \in 1..Len(buffer) |-> IF isFinite(buffer[i]) THEN buffer[i] ELSE 0]

\* Math.max over NaN is NaN and a comparison with NaN is false
peakOf(buffer) ==
  IF \E i \in DOMAIN buffer : buffer[i] = NaN THEN NaN
  ELSE SetMax({0} \cup {Abs(buffer[i]) : i \in DOMAIN buffer})

normalize(buffer) ==
  LET masterPeak == peakOf(buffer)
  IN IF masterPeak # NaN /\ masterPeak > FullScale
       THEN [i \in 1..Len(buffer) |->
               IF buffer[i] = NaN \/ masterPeak = Infinity
                 THEN (IF isFinite(buffer[i]) THEN 0 ELSE NaN)
                 ELSE floatDiv(buffer[i], masterPeak)]
       ELSE buffer

\* lines 1173-1195: allocate, mix every rendered note, sanitize, normalize
mixMaster(entries, totalSamples) ==
  normalize(sanitize(mixAll([i \in 1..totalSamples |-> 0], entries, 1)))

\* the mixing part of createCombinedAudio, given what generatePianoNote
\* returned for each note of chordMeta
MixMaster ==
  /\ pc = "mixing"
  /\ master' = mixMaster(noteAudio, NoteLen)
  /\ pc' = "mixed"
  /\ UNCHANGED <<inputs, noteAudio, notes, rests, measures, score, audio,
                 sf2, soundFont, soundFontReady, loadPc, renders, image,
                 accepted, race, playVars>>

NextMix == MixMaster

SampleChoices == {-FloatMax, FullScale - 1, FloatMax, Infinity, NaN}

\* a rendered note: length samples of one value, mixed in at offsetSamples
NoteAudios ==
  {[offsetSamples |-> o, samples |-> [i \in 1..len |-> v]] :
     o \in 0..1, len \in 1..NoteLen, v \in SampleChoices}

\* no sheet is being processed: the pipeline's state apart from the score
SheetIdle ==
  /\ keySignature = [type |-> "None", count |-> 0]
  /\ timeSignature = CommonTime
  /\ clefs = DefaultClefs
  /\ systems = SeparateSystems
  /\ barLines = <<>>
  /\ noteHeads = <<>>
  /\ tieArcs = {}
  /\ restsFound = <<>>
  /\ voiceSelection = AllVoices
  /\ tempo = 120
  /\ notes = <<>>
  /\ rests = <<>>
  /\ measures = <<>>
  /\ audio = NoAudio

\* chordMeta is built in playing order, so the offsets never decrease
InitMix ==
  /\ SheetIdle
  /\ score = <<>>
  /\ pc = "mixing"
  /\ noteAudio \in {f \in UNION {[1..n -> NoteAudios] : n \in 1..MaxNotes} :
                      \A k \in 1..(Len(f) - 1) :
                        f[k].offsetSamples <= f[k + 1].offsetSamples}
  /\ master = <<>>
  /\ sf2 = NoFile
  /\ SoundIdle
  /\ image = NoImage
  /\ accepted = <<>>
  /\ race = "pending"
  /\ PlayIdle

SpecMix == InitMix /\ [][NextMix]_vars

\* C11: once the notes are mixed, every sample of the master buffer handed to
\* the WAV encoder is finite and its magnitude is at most 1.0, however many
\* notes overlap and whatever samples they hold, non-finite ones included
C11_MasterBounded ==
  pc = "mixed" =>
    \A i \in DOMAIN master : isFinite(master[i]) /\ Abs(master[i]) <= FullScale

\* three notes overlap on one sample, a non-finite sum was replaced on
\* another, and the buffer was scaled down from a peak above 1.0
C11_Witness ==
  /\ pc = "mixed"
  /\ Len(noteAudio) = MaxNotes
  /\ \A k \in DOMAIN noteAudio : noteAudio[k].offsetSamples = 0
  /\ LET raw == mixAll([i \in 1..NoteLen |-> 0], noteAudio, 1)
     IN /\ \E i \in DOMAIN raw : ~isFinite(raw[i])
        /\ peakOf(sanitize(raw)) > FullScale
        /\ \E i \in DOMAIN master : Abs(master[i]) = FullScale
(***************************************************************************)
(* SoundFontService: the SF2 parser and the sample renderer.  A file is    *)
(* modelled by its tags, the set of sub-chunks it holds, the sample pool   *)
(* (smpl), the sample headers (shdr, without the terminal record) and the  *)
(* generator sets of the zones of its one instrument (inst, ibag, igen);   *)
(* it has no global zone and no preset chunk, so every zone is active.     *)
(* A generator amount of -1 stands for a generator the zone does not hold. *)
(***************************************************************************)
RequiredChunks == {"smpl", "shdr", "inst", "ibag", "igen"}

\* the generator object parseGens starts from; loop generators are left out
GenDefaults ==
  [keyLo |-> -1, keyHi |-> -1, velLo |-> -1, velHi |-> -1,
   sampleIndex |-> -1, rootKey |-> -1, fineTune |-> 0, coarseTune |-> 0,
   startOffset |-> 0, endOffset |-> 0,
   startCoarseOffset |-> 0, endCoarseOffset |-> 0, sampleMode |-> -1,
   volEnvAttack |-> -32768, volEnvDecay |-> -32768,
   volEnvSustain |-> -32768, volEnvRelease |-> -32768]

\* parseGens over the generator list of one bag: a generator list is a
\* function from the fields its generators set to their signed 16-bit
\* amounts (a key or velocity range sets both of its fields)
parseGens(gens) ==
  [f \in DOMAIN GenDefaults |->
     IF f \notin DOMAIN gens THEN GenDefaults[f]
     ELSE IF f \in {"keyLo", "keyHi", "velLo", "velHi"} THEN gens[f] % 256
     ELSE IF f = "sampleIndex" THEN gens[f] % 65536
     ELSE IF f = "sampleMode" THEN gens[f] % 4
     ELSE gens[f]]

\* a || b || 0
orElse(a, b) == IF a # 0 THEN a ELSE IF b # 0 THEN b ELSE 0

mergeWithGlobal(zone, global) ==
  [keyLo |-> IF zone.keyLo >= 0 THEN zone.keyLo
             ELSE IF global.keyLo >= 0 THEN global.keyLo ELSE 0,
   keyHi |-> IF zone.keyHi >= 0 THEN zone.keyHi
             ELSE IF global.keyHi >= 0 THEN global.keyHi ELSE 127,
   velLo |-> IF zone.velLo >= 0 THEN zone.velLo
             ELSE IF global.velLo >= 0 THEN global.velLo ELSE 0,
   velHi |-> IF zone.velHi >= 0 THEN zone.velHi
             ELSE IF global.velHi >= 0 THEN global.velHi ELSE 127,
   sampleIndex |-> zone.sampleIndex,
   rootKey |-> IF zone.rootKey >= 0 THEN zone.rootKey ELSE global.rootKey,
   fineTune |-> orElse(zone.fineTune, global.fineTune),
   coarseTune |-> orElse(zone.coarseTune, global.coarseTune),
   startOffset |-> orElse(zone.startOffset, global.startOffset),
   endOffset |-> orElse(zone.endOffset, global.endOffset),
   startCoarseOffset |-> orElse(zone.startCoarseOffset, global.startCoarseOffset),
   endCoarseOffset |-> orElse(zone.endCoarseOffset, global.endCoarseOffset),
   sampleMode |-> IF zone.sampleMode >= 0 THEN zone.sampleMode
                  ELSE IF global.sampleMode >= 0 THEN global.sampleMode ELSE 0,
   volEnvAttack |-> IF zone.volEnvAttack > -32768 THEN zone.volEnvAttack
                    ELSE IF global.volEnvAttack > -32768 THEN global.volEnvAttack
                    ELSE -12000,
   volEnvDecay |-> IF zone.volEnvDecay > -32768 THEN zone.volEnvDecay
                   ELSE IF global.volEnvDecay > -32768 THEN global.volEnvDecay
                   ELSE -12000,
   volEnvSustain |-> IF zone.volEnvSustain > -32768 THEN zone.volEnvSustain
                     ELSE IF global.volEnvSustain > -32768 THEN global.volEnvSustain
                     ELSE 0,
   volEnvRelease |-> IF zone.volEnvRelease > -32768 THEN zone.volEnvRelease
                     ELSE IF global.volEnvRelease > -32768 THEN global.volEnvRelease
                     ELSE -12000]

RECURSIVE pow2(_)
pow2(k) == IF k = 0 THEN 1 ELSE 2 * pow2(k - 1)

\* Math.pow(2, tc / 1200) seconds in microseconds, for whole octaves of
\* timecents (the fraction of a microsecond is dropped)
timecentsToMicros(tc) ==
  IF tc >= 0 THEN 1000000 * pow2(tc \div 1200)
  ELSE 1000000 \div pow2((-tc) \div 1200)

\* one zone as _buildZones pushes it, from the merged generators m and the
\* sample header sh; envelope times in microseconds, sustain in 1/1000
zoneOf(m, sh) ==
  [keyLo |-> m.keyLo, keyHi |-> m.keyHi, velLo |-> m.velLo, velHi |-> m.velHi,
   sampleIndex |-> m.sampleIndex,
   rootKey |-> IF m.rootKey >= 0 THEN m.rootKey ELSE sh.originalPitch,
   tuning |-> m.coarseTune * 100 + m.fineTune + sh.pitchCorrection,
   startOffset |-> sh.start + m.startOffset + m.startCoarseOffset * 32768,
   endOffset |-> sh.end + m.endOffset + m.endCoarseOffset * 32768,
   loopMode |-> m.sampleMode,
   volAttack |-> timecentsToMicros(m.volEnvAttack),
   volDecay |-> timecentsToMicros(m.volEnvDecay),
   volSustain |-> Max2(0, 1000 - m.volEnvSustain),
   volRelease |-> timecentsToMicros(m.volEnvRelease)]

\* the zones of the instrument whose bags hold the generator lists bags: a
\* first bag without a sample is the global zone; a zone whose sample index
\* names no header, or whose sample is a ROM or linked sample, is skipped
_buildZones(bags, sampleHeaders) ==
  LET hasGlobal == Len(bags) > 0 /\ parseGens(bags[1]).sampleIndex < 0
      gbl == IF hasGlobal THEN parseGens(bags[1]) ELSE parseGens(<<>>)
      startBag == IF hasGlobal THEN 2 ELSE 1
      zoneGens == [k \in DOMAIN bags |-> parseGens(bags[k])]
      kept == {k \in startBag..Len(bags) :
                 /\ zoneGens[k].sampleIndex >= 0
                 /\ zoneGens[k].sampleIndex < Len(sampleHeaders)
                 /\ sampleHeaders[zoneGens[k].sampleIndex + 1].sampleType <= 1}
  IN [r \in 1..Cardinality(kept) |->
        LET k == CHOOSE j \in kept : Cardinality({t \in kept : t < j}) = r - 1
        IN zoneOf(mergeWithGlobal(zoneGens[k], gbl),
                  sampleHeaders[zoneGens[k].sampleIndex + 1])]

\* _parse: the fields it leaves behind and whether it threw.  A wrong tag
\* throws before anything is stored; with an instrument but no ibag chunk
\* iBags[bagLo] is undefined, and with zones but no igen chunk iGens[i] is
\* undefined: reading a field of either throws inside _buildZones
_parse(f, sf) ==
  IF f.riffTag # "RIFF" \/ f.formType # "sfbk" THEN [threw |-> TRUE, sf |-> sf]
  ELSE
    LET withPool == IF "smpl" \in f.chunks
                      THEN [sf EXCEPT !._sampleData = f.smpl, !.hasSampleData = TRUE]
                      ELSE sf
        withHeaders == IF "shdr" \in f.chunks
                         THEN [withPool EXCEPT !._sampleHeaders = f.shdr]
                         ELSE withPool
    IN IF "inst" \notin f.chunks
         THEN [threw |-> FALSE,
               sf |-> [withHeaders EXCEPT !._allZones = <<>>, !._zones = <<>>]]
       ELSE IF "ibag" \notin f.chunks
              \/ ("igen" \notin f.chunks /\ Len(f.zoneGens) > 0)
         THEN [threw |-> TRUE, sf |-> [withHeaders EXCEPT !._allZones = <<>>]]
       ELSE LET zones == _buildZones(IF "igen" \in f.chunks THEN f.zoneGens ELSE <<>>,
                                     withHeaders._sampleHeaders)
            IN [threw |-> FALSE,
                sf |-> [withHeaders EXCEPT !._allZones = zones, !._zones = zones]]

\* the zones whose key range and velocity range hold the note and velocity
exactZones(zones, midiNote, velocity) ==
  {k \in DOMAIN zones :
     /\ midiNote >= zones[k].keyLo /\ midiNote <= zones[k].keyHi
     /\ velocity >= zones[k].velLo /\ velocity <= zones[k].velHi}

\* index in zones of the zone found, 0 for null: the first zone, in list
\* order, of least distance; distances to the key-range midpoint are doubled
\* to stay integers
_findZoneDirect(zones, midiNote, velocity) ==
  LET exact == exactZones(zones, midiNote, velocity)
      candidates == IF exact # {} THEN exact ELSE DOMAIN zones
      dist(k) == IF exact # {}
                   THEN Abs(midiNote - zones[k].rootKey)
                   ELSE Abs(2 * midiNote - (zones[k].keyLo + zones[k].keyHi))
  IN IF candidates = {} THEN 0
     ELSE CHOOSE k \in candidates :
            \A j \in candidates : dist(k) < dist(j) \/ (dist(k) = dist(j) /\ k <= j)

_buildNoteMap(zones) == [note \in MidiNotes |-> _findZoneDirect(zones, note, 80)]

\* the cached zone when the note has one, else the direct search
_findZone(sf, midiNote, velocity) ==
  IF midiNote \in MidiNotes /\ sf._noteToZone[midiNote] # 0
    THEN sf._noteToZone[midiNote]
    ELSE _findZoneDirect(sf._zones, midiNote, velocity)

_getSample16(sf, index) ==
  IF ~sf.hasSampleData \/ index < 0 \/ index >= Len(sf._sampleData) THEN 0
  ELSE sf._sampleData[index + 1]

SampleRate == 10   \* samples per second
PoolLen    == 6    \* samples in the SoundFont's sample pool
MaxRenders == 2    \* calls of createCombinedAudio

\* the lengths in output samples of the envelope's phases for a note of dur
\* (1/64 s): the zone's times clamped to 5 ms..2 s, 10 ms..4 s, and
\* 20 ms..min(0.3 * duration, 2 s)
attackSamplesOf(zone) ==
  (SampleRate * Max2(5000, Min2(zone.volAttack, 2000000))) \div 1000000

decaySamplesOf(zone) ==
  (SampleRate * Max2(10000, Min2(zone.volDecay, 4000000))) \div 1000000

releaseSamplesOf(zone, dur) ==
  (SampleRate * Max2(20000, Min2(Min2(zone.volRelease, (dur * 46875) \div 10),
                                 2000000))) \div 1000000

\* the envelope of output sample i (from 0) of sampleCount: the branch taken
\* and the level as the fraction num/den of 1/1000
envelopeAt(i, sampleCount, attackSamples, decaySamples, releaseSamples, sustainLevel) ==
  LET releaseStart == Max2(0, sampleCount - releaseSamples)
  IN IF i < attackSamples
       THEN [phase |-> "attack", num |-> 1000 * i, den |-> Max2(1, attackSamples)]
     ELSE IF i < attackSamples + decaySamples
       THEN [phase |-> "decay",
             num |-> 1000 * Max2(1, decaySamples)
                       - (i - attackSamples) * (1000 - sustainLevel),
             den |-> Max2(1, decaySamples)]
     ELSE IF i >= releaseStart
       THEN [phase |-> "release",
             num |-> sustainLevel * (Max2(1, releaseSamples) - (i - releaseStart)),
             den |-> Max2(1, releaseSamples)]
     ELSE [phase |-> "sustain", num |-> sustainLevel, den |-> 1]

\* renderNote for a note of dur (1/64 s), sampleCount output samples.  The
\* zone's sample is read at its recorded pitch and rate (pitchRatio 1)
\* without a loop: samples is what is read from the pool, and 0 from the end
\* of the zone's sample on; envelope is the factor each output sample is
\* scaled by.  zone = 0 and isNull stand for the null result.
renderZone(sf, z, dur, sampleCount) ==
  LET zone == sf._zones[z]
      attackSamples == attackSamplesOf(zone)
      decaySamples == decaySamplesOf(zone)
      releaseSamples == releaseSamplesOf(zone, dur)
  IN  [isNull |-> FALSE, zone |-> z,
           samples |-> [i \in 1..sampleCount |->
                          IF (i - 1) + zone.startOffset >= zone.endOffset THEN 0
                          ELSE _getSample16(sf, (i - 1) + zone.startOffset)],
           envelope |-> [i \in 1..sampleCount |->
                           envelopeAt(i - 1, sampleCount, attackSamples,
                                      decaySamples, releaseSamples,
                                      zone.volSustain)],
           releaseSamples |-> releaseSamples,
           sustainLevel |-> zone.volSustain]

renderNote(sf, midiNote, dur, sampleCount, velocity) ==
  IF ~sf._loaded \/ Len(sf._zones) = 0
    THEN [isNull |-> TRUE, zone |-> 0, samples |-> <<>>, envelope |-> <<>>,
          releaseSamples |-> 0, sustainLevel |-> 0]
  ELSE CHOOSE output \in {renderZone(sf, z, dur, sampleCount) :
                            z \in {_findZone(sf, midiNote, velocity)}} : TRUE

\* the sample value of the synthesized fallback tone
SynthSample == 1

_synthesizeNote(midiNote, sampleCount) ==
  [source |-> "synthesis", zone |-> 0,
   samples |-> [i \in 1..sampleCount |-> SynthSample],
   envelope |-> <<>>, releaseSamples |-> 0, sustainLevel |-> 0]

\* generatePianoNote(midiNote, duration): the velocity defaults to 100
generatePianoNote(ready, sf, midiNote, dur, sampleCount) ==
  CHOOSE audioOut \in
    {IF ready /\ ~sfSample.isNull
       THEN [source |-> "SoundFont", zone |-> sfSample.zone,
             samples |-> sfSample.samples, envelope |-> sfSample.envelope,
             releaseSamples |-> sfSample.releaseSamples,
             sustainLevel |-> sfSample.sustainLevel]
       ELSE _synthesizeNote(midiNote, sampleCount) :
     sfSample \in {renderNote(sf, midiNote, dur, sampleCount, 100)}} : TRUE

(***************************************************************************)
(* createCombinedAudio with its audio: the layout of the timing map, then  *)
(* the mix of every note generatePianoNote renders.  SampleRate stands for *)
(* the 44100 samples per second of the code.                               *)
(***************************************************************************)

\* writeWavToFile: 0.1 s of silence for an empty buffer, and every sample
\* clamped to [-1, 1] on its way to 16 bits
writeWavToFile(audioData) ==
  LET data == IF Len(audioData) = 0
                THEN [i \in 1..(SampleRate \div 10) |-> 0]
                ELSE audioData
  IN [i \in 1..Len(data) |-> Max2(-FullScale, Min2(FullScale, data[i]))]

\* the notes of chordMeta in mixing order, with offset and length in samples
RECURSIVE chordNotes(_, _)
chordNotes(chordMeta, c) ==
  IF c > Len(chordMeta) THEN <<>>
  ELSE [k \in 1..Len(chordMeta[c].notes) |->
          [offsetSamples |-> (chordMeta[c].offsetSamples * SampleRate) \div 44100,
           midiNote |-> chordMeta[c].notes[k].midiNote,
           dur |-> chordMeta[c].notes[k].dur,
           sampleCount |-> (SampleRate * chordMeta[c].notes[k].dur) \div 64]]
       \o chordNotes(chordMeta, c + 1)

\* what createCombinedAudio returns: fileUri, timingMap, totalDuration, and
\* with them the samples of the file written (wav) and, per note, where its
\* audio came from (voices)
renderVoices(layout, flat, audioOf) ==
  LET totalSamples == ((10 * layout.totalDuration + 192) * SampleRate) \div 640
      entries == [k \in 1..Len(flat) |->
                    [offsetSamples |-> flat[k].offsetSamples,
                     samples |-> audioOf[k].samples]]
  IN [fileUri |-> layout.fileUri, timingMap |-> layout.timingMap,
      totalDuration |-> layout.totalDuration,
      wav |-> writeWavToFile(mixMaster(entries, totalSamples)),
      voices |-> [k \in 1..Len(flat) |->
                    [midiNote |-> flat[k].midiNote, velocity |-> 100,
                     source |-> audioOf[k].source, zone |-> audioOf[k].zone,
                     samples |-> audioOf[k].samples,
                     envelope |-> audioOf[k].envelope,
                     releaseSamples |-> audioOf[k].releaseSamples,
                     sustainLevel |-> audioOf[k].sustainLevel]]]

renderNotes(layout, flat, ready, sf) ==
  CHOOSE result \in
    {renderVoices(layout, flat, audioOf) :
       audioOf \in {[k \in 1..Len(flat) |->
                       generatePianoNote(ready, sf, flat[k].midiNote,
                                         flat[k].dur, flat[k].sampleCount)]}} : TRUE

renderLayout(ns, layout, ready, sf) ==
  IF Len(ns) = 0
    THEN [fileUri |-> layout.fileUri, timingMap |-> layout.timingMap,
          totalDuration |-> layout.totalDuration, wav |-> <<>>, voices |-> <<>>]
  ELSE CHOOSE result \in
         {renderNotes(layout, flat, ready, sf) :
            flat \in {chordNotes(layout.chordMeta, 1)}} : TRUE

renderAudio(ns, bpmTempo, ready, sf) ==
  CHOOSE result \in
    {renderLayout(ns, layout, ready, sf) :
       layout \in {createCombinedAudio(ns, bpmTempo, <<>>)}} : TRUE

sheetVars == <<inputs, notes, rests, measures, score, audio, noteAudio, master,
              image, accepted, race, playVars>>

\* app initialization calls AudioPlaybackService.loadSoundFont without
\* waiting for it: SoundFontService.loadSoundFont runs up to its first await
LoadBegin ==
  /\ loadPc = "idle"
  /\ sf2 # NoFile
  /\ soundFont' = [soundFont EXCEPT !._loading = TRUE]
  /\ loadPc' = "reading"
  /\ UNCHANGED <<pc, sheetVars, sf2, soundFontReady, renders>>

\* the file has been read: parse it, build the note map, select preset 0;
\* a throw is caught and logged; then _soundFontReady takes isLoaded
LoadEnd ==
  /\ loadPc = "reading"
  /\ \E p \in {_parse(sf2, soundFont)} :
       \E after \in {IF p.threw
                       THEN [p.sf EXCEPT !._loading = FALSE]
                       ELSE [p.sf EXCEPT !._noteToZone = _buildNoteMap(p.sf._zones),
                                         !._loaded = TRUE, !._loading = FALSE]} :
         soundFont' = after /\ soundFontReady' = after._loaded
  /\ loadPc' = "done"
  /\ UNCHANGED <<pc, sheetVars, sf2, renders>>

\* a call createCombinedAudio(score, tempo)
Render ==
  /\ pc = "rendering"
  /\ Len(renders) < MaxRenders
  /\ renders' = Append(renders, renderAudio(score, tempo, soundFontReady, soundFont))
  /\ UNCHANGED <<pc, sheetVars, sf2, soundFont, soundFontReady, loadPc>>

NextSound ==
  \/ LoadBegin
  \/ LoadEnd
  \/ Render

\* the scores rendered: none, one note, a chord, two notes in a row, a rest
soundNote(k, x, midi, dur) ==
  [HeadOf(0, x, RowOf(0, 4), NoAccidental, dur, 0)
     EXCEPT !.ref = k, !.midiNote = midi, !.voice = "Soprano"]

RenderScores ==
  {<<>>,
   <<soundNote(1, XStep, 60, "quarter")>>,
   <<soundNote(1, XStep, 60, "half"), soundNote(2, XStep, 64, "quarter")>>,
   <<soundNote(1, XStep, 60, "quarter"), soundNote(2, 2 * XStep, 64, "quarter")>>,
   <<RestOf(1, 0, XStep, "quarter")>>}

Pool == [i \in 1..PoolLen |-> FullScale]

SampleHeader(start, end, sampleType) ==
  [start |-> start, end |-> end, originalPitch |-> 60, pitchCorrection |-> 0,
   sampleType |-> sampleType]

\* two sample headers: the first spans the pool, the second is a part of it,
\* is empty or inverted, ends or lies beyond the pool, or is a ROM sample
HeaderChoices ==
  {<<SampleHeader(0, PoolLen, 1), h>> :
     h \in {SampleHeader(3, PoolLen, 1), SampleHeader(4, 2, 1),
            SampleHeader(2, PoolLen + 3, 1),
            SampleHeader(PoolLen + 2, PoolLen + 5, 1),
            SampleHeader(0, 3, 32769)}}

\* the generator list that sets the fields of full which differ from what
\* parseGens starts from
GenList(full) ==
  [f \in {f \in DOMAIN full : full[f] # GenDefaults[f]} |-> full[f]]

ZoneGen(keys, vels, sampleIndex, rootKey, startOffset, endOffset, endCoarseOffset) ==
  GenList([keyLo |-> keys[1], keyHi |-> keys[2], velLo |-> vels[1], velHi |-> vels[2],
           sampleIndex |-> sampleIndex, rootKey |-> rootKey,
           startOffset |-> startOffset, endOffset |-> endOffset,
           endCoarseOffset |-> endCoarseOffset])

AnyRange == <<-1, -1>>

ZoneGenChoices ==
  {ZoneGen(AnyRange, AnyRange, 0, -1, 0, 0, 0),
   ZoneGen(<<0, 59>>, AnyRange, 0, 48, 0, 0, 0),
   ZoneGen(<<60, 127>>, AnyRange, 1, 72, 0, 0, 0),
   ZoneGen(AnyRange, <<0, 90>>, 0, -1, 0, 0, 0),
   ZoneGen(AnyRange, <<91, 127>>, 1, 62, 0, 0, 0),
   ZoneGen(AnyRange, AnyRange, 0, -1, 0, -PoolLen, 0),
   ZoneGen(AnyRange, AnyRange, 1, -1, 1, -1, 0),
   ZoneGen(AnyRange, AnyRange, 0, -1, 0, 0, 1),
   ZoneGen(AnyRange, AnyRange, 7, -1, 0, 0, 0)}

SoundFontFile(riffTag, formType, chunks, shdr, zoneGens) ==
  [riffTag |-> riffTag, formType |-> formType, chunks |-> chunks,
   smpl |-> Pool, shdr |-> shdr, zoneGens |-> zoneGens]

\* files with both tags and every required chunk
CompleteFiles ==
  {SoundFontFile("RIFF", "sfbk", RequiredChunks, shdr, zoneGens) :
     shdr \in HeaderChoices,
     zoneGens \in UNION {[1..n -> ZoneGenChoices] : n \in 0..2}}

PlainFile ==
  SoundFontFile("RIFF", "sfbk", RequiredChunks,
                <<SampleHeader(0, PoolLen, 1), SampleHeader(3, PoolLen, 1)>>,
                <<ZoneGen(AnyRange, AnyRange, 0, -1, 0, 0, 0)>>)

\* the plain file with a wrong tag or without one of the required chunks
InvalidFiles ==
  {[PlainFile EXCEPT !.riffTag = "RIFX"], [PlainFile EXCEPT !.formType = "WAVE"]}
  \cup {[PlainFile EXCEPT !.chunks = RequiredChunks \ {c}] : c \in RequiredChunks}

isInvalid(f) ==
  f.riffTag # "RIFF" \/ f.formType # "sfbk" \/ ~(RequiredChunks \subseteq f.chunks)

InitSound ==
  /\ SheetIdle
  /\ pc = "rendering"
  /\ noteAudio = <<>>
  /\ master = <<>>
  /\ SoundIdle
  /\ image = NoImage
  /\ accepted = <<>>
  /\ race = "pending"
  /\ PlayIdle
  /\ sf2 \in CompleteFiles \cup InvalidFiles
  /\ score \in RenderScores

SpecSound == InitSound /\ [][NextSound]_vars

\* C12: a call of the renderer with a score that holds no notes returns a
\* written WAV file of 0.1 s of silence together with an empty timing map
C12_SilentWavWithoutNotes ==
  \A k \in DOMAIN renders :
    Len(score) = 0 =>
      /\ renders[k].fileUri # ""
      /\ renders[k].wav = [i \in 1..(SampleRate \div 10) |-> 0]
      /\ renders[k].timingMap = <<>>

\* C13: any two renders of the same notes at the same tempo with the same
\* SoundFont file and preset return identical WAV samples and identical
\* timing maps, whenever they are issued relative to the SoundFont load
C13_RendersIdentical ==
  \A a \in DOMAIN renders : \A b \in DOMAIN renders :
    /\ renders[a].wav = renders[b].wav
    /\ renders[a].timingMap = renders[b].timingMap

\* C14: a note rendered from the SoundFont uses a zone whose key range holds
\* the note and whose velocity range holds the velocity whenever the active
\* zones have one, and among those one of least |note - rootKey|; only when
\* there is none does it use the zone of nearest key-range midpoint
C14_ZoneMatchesNoteAndVelocity ==
  \A r \in DOMAIN renders : \A k \in DOMAIN renders[r].voices :
    LET v == renders[r].voices[k]
        zones == soundFont._zones
        exact == exactZones(zones, v.midiNote, v.velocity)
        midDistance(j) == Abs(2 * v.midiNote - (zones[j].keyLo + zones[j].keyHi))
    IN v.source = "SoundFont" =>
         IF exact # {}
           THEN /\ v.zone \in exact
                /\ \A j \in exact : Abs(v.midiNote - zones[v.zone].rootKey)
                                      <= Abs(v.midiNote - zones[j].rootKey)
           ELSE \A j \in DOMAIN zones : midDistance(v.zone) <= midDistance(j)

\* C15: every zone the parser has built lies in the sample pool,
\* startOffset < endOffset <= pool length, whatever address offsets its
\* generators hold and wherever its sample header points
C15_ZonesInsidePool ==
  \A k \in DOMAIN soundFont._allZones :
    /\ soundFont._allZones[k].startOffset < soundFont._allZones[k].endOffset
    /\ soundFont._allZones[k].endOffset <= Len(soundFont._sampleData)

\* C16: with a SoundFont file that has a wrong RIFF or sfbk tag or lacks one
\* of the chunks smpl, shdr, inst, ibag, igen, the load ends without an
\* error for its caller and every note of every render is the synthesized
\* fallback tone, never silence
C16_InvalidFontFallsBack ==
  isInvalid(sf2) =>
    /\ loadPc = "done" => ~soundFont._loading
    /\ \A r \in DOMAIN renders : \A k \in DOMAIN renders[r].voices :
         /\ renders[r].voices[k].source = "synthesis"
         /\ \E i \in DOMAIN renders[r].voices[k].samples :
              renders[r].voices[k].samples[i] # 0

(***************************************************************************)
(* Tie chains of every detected length: heads of one pitch on staff 0 in   *)
(* adjacent columns, of the durations duration classification and dot      *)
(* detection can give                                                       *)
(***************************************************************************)
ChainDurations == {"whole", "half", "quarter", "sixteenth", "32nd", "dotted_32nd"}

ChainHeads ==
  {HeadOf(0, XStep * k, RowOf(0, 0), NoAccidental, d, 0) :
     k \in 1..MaxHeads, d \in ChainDurations}

InitChain ==
  \E heads \in HeadSeqs(ChainHeads, MaxHeads), arcs \in ArcChoices :
    /\ heads # <<>>
    /\ InitWith([type |-> "None", count |-> 0], CommonTime, DefaultClefs,
                SeparateSystems, <<>>, heads, arcs, <<>>, AllVoices, 120)

SpecChain == InitChain /\ [][Next]_vars

\* C23: the duration of a merged tie chain is a named duration whose beat
\* value is nearest to the chain's tiedBeats
C23_ChainLabelNearest ==
  \A i \in DOMAIN notes :
    notes[i].tiedBeats # 0 =>
      /\ notes[i].duration \in DurationNames
      /\ \A d \in DurationNames :
           Abs(durationBeats[notes[i].duration] - notes[i].tiedBeats)
             <= Abs(durationBeats[d] - notes[i].tiedBeats)

(***************************************************************************)
(* _filterBarLines: note head proximity, cross-staff consensus, minimum    *)
(* measure width                                                            *)
(***************************************************************************)
\* step 1: the candidates farther than half a spacing from every head of
\* their staff
afterNH(bars, heads) ==
  FilterSeq(bars,
            {bar \in Range(bars) :
               \A k \in DOMAIN heads :
                 heads[k].staffIndex = bar.staffIndex =>
                   2 * Abs(heads[k].x - bar.x) > StaffSpacing})

\* sysBars.find: the first candidate of staff si less than a spacing from x,
\* 0 when there is none
findBar(sysBars, si, x) ==
  LET hits == {k \in DOMAIN sysBars :
                 /\ sysBars[k].staffIndex = si
                 /\ Abs(sysBars[k].x - x) < StaffSpacing}
  IN IF hits = {} THEN 0 ELSE SetMin(hits)

\* the primary candidate with its match on every other staff of the system,
\* nothing when one staff has no match
matchesOf(sysBars, sysStaves, pBar) ==
  LET others == Tail(sysStaves)
  IN IF \E k \in DOMAIN others : findBar(sysBars, others[k], pBar.x) = 0
       THEN <<>>
     ELSE <<pBar>> \o [k \in DOMAIN others |->
                         sysBars[findBar(sysBars, others[k], pBar.x)]]

RECURSIVE primaryConsensus(_, _, _)
primaryConsensus(sysBars, sysStaves, primaryBars) ==
  IF primaryBars = <<>> THEN <<>>
  ELSE matchesOf(sysBars, sysStaves, Head(primaryBars))
       \o primaryConsensus(sysBars, sysStaves, Tail(primaryBars))

\* step 2, system by system
RECURSIVE consensusFrom(_, _, _)
consensusFrom(bars, sys, k) ==
  IF k > Len(sys) THEN <<>>
  ELSE LET sysStaves == sys[k]
           sysBars == FilterSeq(bars, {b \in Range(bars) :
                                         b.staffIndex \in Range(sysStaves)})
           primaryBars == FilterSeq(sysBars, {b \in Range(sysBars) :
                                                b.staffIndex = sysStaves[1]})
       IN (IF Len(sysStaves) <= 1 THEN sysBars
           ELSE primaryConsensus(sysBars, sysStaves, primaryBars))
          \o consensusFrom(bars, sys, k + 1)

\* step 3 on the bars of one staff in x order: a bar is kept when it is at
\* least six spacings right of the last kept one
RECURSIVE minWidthFrom(_, _, _)
minWidthFrom(bars, hasLast, lastX) ==
  IF bars = <<>> THEN <<>>
  ELSE IF ~hasLast \/ Head(bars).x - lastX >= StaffSpacing * 6
    THEN <<Head(bars)>> \o minWidthFrom(Tail(bars), TRUE, Head(bars).x)
  ELSE minWidthFrom(Tail(bars), hasLast, lastX)

\* the staves' lists are joined in staff order; the closing sort by staff
\* and x makes the order of the Map immaterial
RECURSIVE minWidthOfStaves(_, _)
minWidthOfStaves(consensus, si) ==
  IF si >= NumStaves THEN <<>>
  ELSE LET onStaff == FilterSeq(consensus, {b \in Range(consensus) :
                                              b.staffIndex = si})
       IN minWidthFrom(SortByKey(onStaff, XKeys(onStaff)), FALSE, 0)
          \o minWidthOfStaves(consensus, si + 1)

_filterBarLines(bars, heads, numStaves, sys) ==
  IF numStaves = 0 \/ bars = <<>> THEN bars
  ELSE LET final == minWidthOfStaves(consensusFrom(afterNH(bars, heads), sys, 1), 0)
       IN SortByKey(final, StaffXKeys(final))

(***************************************************************************)
(* The front of processSheet: staff detection, key signature, the OCR      *)
(* confidence gate, and processScore's race against its 45 s timer         *)
(***************************************************************************)
MaxCandidates == 2   \* note head candidates in the image

typeNames == <<"None", "Sharps", "Flats">>

\* _detectKeySignature: the argmax of the type classifier names the type;
\* for a type other than None the argmax of the digit classifier is the count
_detectKeySignature(img) ==
  LET result == [type |-> "None", count |-> 0]
  IN IF img.staves = 0 THEN result
     ELSE IF ~img.isInitialized THEN result
     ELSE LET type == typeNames[img.keyC + 1]
          IN [type |-> type,
              count |-> IF type # "None" THEN img.keyD ELSE result.count]

\* the fate of one candidate whose inference gave top probability maxProb and
\* normalized entropy normalizedEntropy, both in percent
gateOf(o) ==
  IF o.category = "rest" /\ o.maxProb > 30 /\ o.normalizedEntropy < 80
    THEN "rejected"
  ELSE IF o.maxProb > 15 /\ o.normalizedEntropy < 92 THEN "accepted"
  ELSE IF o.maxProb > 10 THEN "lowConf"
  ELSE "rejected"

\* a head as the gate hands it on, with what the gate attached to it
Gated(head, o, hasOcr, lowConf) ==
  [head |-> head, hasOcr |-> hasOcr,
   ocrConfidence |-> IF hasOcr THEN o.maxProb ELSE 0,
   ocrEntropy |-> IF hasOcr THEN o.normalizedEntropy ELSE 0,
   ocrCategory |-> IF hasOcr THEN o.category ELSE "",
   ocrLowConf |-> lowConf]

\* the loop of _ocrConfidenceGate from candidate k on
RECURSIVE gateFrom(_, _)
gateFrom(img, k) ==
  IF k > Len(img.rawNoteHeads) THEN <<>>
  ELSE LET head == img.rawNoteHeads[k]
           o == img.ocr[k]
           rest == gateFrom(img, k + 1)
       IN IF head.staffIndex >= img.staves
            THEN <<Gated(head, o, FALSE, FALSE)>> \o rest
          ELSE IF ~o.ok THEN <<Gated(head, o, FALSE, FALSE)>> \o rest
          ELSE IF gateOf(o) = "rejected" THEN rest
          ELSE <<Gated(head, o, TRUE, gateOf(o) = "lowConf")>> \o rest

_ocrConfidenceGate(img) ==
  IF ~img.ocrModel
    THEN [k \in DOMAIN img.rawNoteHeads |->
            Gated(img.rawNoteHeads[k], img.ocr[k], FALSE, FALSE)]
  ELSE gateFrom(img, 1)

\* the positions of processSheet at which it awaits and the timer can fire
AwaitPoints == {"loadImage", "detectKeySignature", "ocrConfidenceGate"}

frontVars == <<timeSignature, tieArcs, restsFound, voiceSelection,
               tempo, notes, rests, measures, score, audio, noteAudio, master,
               sf2, soundFont, soundFontReady, loadPc, renders, image, playVars>>

\* steps 1 to 5: the image is loaded, its staff lines are grouped into
\* staves, the staves are paired into systems and the clefs are read
LoadImage ==
  /\ pc = "loadImage"
  /\ systems' = image.systems
  /\ clefs' = image.clefs
  /\ pc' = "detectKeySignature"
  /\ UNCHANGED <<frontVars, keySignature, barLines, noteHeads, accepted, race>>

\* steps 6 to 10: the key signature, then the time signature, the bar lines,
\* the ledger lines and the raw note head candidates
DetectKeySignature ==
  /\ pc = "detectKeySignature"
  /\ keySignature' = _detectKeySignature(image)
  /\ pc' = "ocrConfidenceGate"
  /\ UNCHANGED <<frontVars, systems, clefs, barLines, noteHeads, accepted, race>>

\* steps 10a to 13: the gate, the bar line filter on the heads it let
\* through, then accidentals, durations and dots of these heads
OcrConfidenceGate ==
  /\ pc = "ocrConfidenceGate"
  /\ accepted' = _ocrConfidenceGate(image)
  /\ noteHeads' = [k \in DOMAIN accepted' |-> [accepted'[k].head EXCEPT !.ref = k]]
  /\ barLines' = _filterBarLines(image.barLines, noteHeads', image.staves, systems)
  /\ pc' = "mapToPitches"
  /\ UNCHANGED <<frontVars, systems, clefs, keySignature, race>>

\* processScore's timer fires first: the race is rejected with 'Processing
\* timeout' while processSheet goes on
Timeout ==
  /\ race = "pending"
  /\ PlayIdle
  /\ pc \in AwaitPoints
  /\ race' = "timeout"
  /\ UNCHANGED <<frontVars, pc, systems, clefs, keySignature, barLines, noteHeads,
                 accepted>>

NextSheet ==
  \/ LoadImage
  \/ DetectKeySignature
  \/ OcrConfidenceGate
  \/ Timeout
  \/ MapToPitches
  \/ DetectTies
  \/ AssignVoices
  \/ DetectRests
  \/ GroupIntoMeasures
  \/ QuantizeRhythms
  \/ ExpandRepeats

\* what one inference of the OCR classifier can give: top probability and
\* normalized entropy in percent around the thresholds of the gate, or a
\* failure
OcrOutcomes ==
  {[ok |-> TRUE, maxProb |-> c[1][1], normalizedEntropy |-> c[1][2],
    category |-> c[2]] :
     c \in {<<5, 80>>, <<5, 95>>, <<10, 60>>, <<10, 95>>, <<12, 60>>,
            <<12, 93>>, <<15, 60>>, <<15, 93>>, <<16, 60>>, <<16, 92>>,
            <<31, 50>>, <<31, 80>>, <<60, 30>>, <<60, 50>>}
           \X {"note", "rest", "unknown"}}
  \cup {[ok |-> FALSE, maxProb |-> 0, normalizedEntropy |-> 0,
         category |-> "unknown"]}

\* candidate k: a quarter head in the lowest space of staff 0, column k
Candidate(k) ==
  [HeadOf(0, XStep * k, RowOf(0, 1), NoAccidental, "quarter", 0) EXCEPT !.ref = k]

\* an image with staves and n candidates
ImageOf(isInitialized, keyC, keyD, ocrModel, ocr) ==
  [staves |-> NumStaves, systems |-> SeparateSystems, clefs |-> DefaultClefs,
   barLines |-> <<>>, isInitialized |-> isInitialized, keyC |-> keyC, keyD |-> keyD,
   ocrModel |-> ocrModel,
   rawNoteHeads |-> [k \in DOMAIN ocr |-> Candidate(k)], ocr |-> ocr]

\* an image in which no five staff lines are found
BlankImage ==
  [staves |-> 0, systems |-> <<>>, clefs |-> <<>>, barLines |-> <<>>,
   isInitialized |-> TRUE, keyC |-> 1, keyD |-> 2, ocrModel |-> TRUE,
   rawNoteHeads |-> <<>>, ocr |-> <<>>]

\* the x positions at which the image has bar line candidates: at the first
\* column, one pixel right of it, and six spacings right of the first, less
\* one pixel or not
BarXChoices ==
  {XStep, XStep + 1, XStep + 6 * StaffSpacing - 1, XStep + 6 * StaffSpacing}

\* _detectBarLines keeps no two candidates of a staff closer than one and a
\* half spacings
BarXSets ==
  {xs \in SUBSET BarXChoices :
     \A a \in xs, b \in xs : a # b => 2 * Abs(a - b) >= 3 * StaffSpacing}

\* the single bar lines of staff si at the positions xs, in x order
BarsAt(si, xs) ==
  [r \in 1..Cardinality(xs) |->
     BarOf(CHOOSE x \in xs : Cardinality({y \in xs : y < x}) = r - 1, si, "single")]

\* an image whose first two staves are one system, with bar line candidates
\* on its first three staves
BarImage(xs0, xs1, xs2, ocr) ==
  [ImageOf(TRUE, 0, 0, FALSE, ocr) EXCEPT
     !.systems = PairedSystems,
     !.barLines = BarsAt(0, xs0) \o BarsAt(1, xs1) \o BarsAt(2, xs2)]

SheetImages ==
  {ImageOf(TRUE, 0, 0, m, ocr) :
     m \in BOOLEAN, ocr \in UNION {[1..n -> OcrOutcomes] : n \in 1..MaxCandidates}}
  \cup {ImageOf(i, c, d, FALSE, <<CHOOSE o \in OcrOutcomes : ~o.ok>>) :
          i \in BOOLEAN, c \in 0..2, d \in 0..10}
  \cup {BarImage(xs0, xs1, xs2, ocr) :
          xs0 \in BarXSets, xs1 \in BarXSets, xs2 \in {{}, {XStep}},
          ocr \in {<<>>, <<CHOOSE o \in OcrOutcomes : ~o.ok>>}}
  \cup {BlankImage}

InitSheet ==
  /\ pc = "loadImage"
  /\ image \in SheetImages
  /\ accepted = <<>>
  /\ race = "pending"
  /\ PlayIdle
  /\ keySignature = [type |-> "None", count |-> 0]
  /\ timeSignature = CommonTime
  /\ clefs = <<>>
  /\ systems = <<>>
  /\ barLines = <<>>
  /\ noteHeads = <<>>
  /\ tieArcs = {}
  /\ restsFound = <<>>
  /\ voiceSelection = AllVoices
  /\ tempo = 120
  /\ notes = <<>>
  /\ rests = <<>>
  /\ measures = <<>>
  /\ score = <<>>
  /\ audio = NoAudio
  /\ noteAudio = <<>>
  /\ master = <<>>
  /\ sf2 = NoFile
  /\ SoundIdle

SpecSheet == InitSheet /\ [][NextSheet]_vars

\* C17: processSheet on an image in which no staff is detected never returns
\* a score (it fails with NoStavesDetected)
C17_NoStavesNoScore ==
  image.staves = 0 => pc # "returned"

\* C18: once processScore's timer has abandoned the processing, processSheet
\* starts no further stage: beyond the await at which the timer fired, its
\* position no longer moves
C18_NoStageAfterTimeout ==
  [][race = "timeout" /\ pc \notin AwaitPoints => pc' = pc]_vars

\* C19: with the OCR classifier loaded, a candidate whose inference succeeded
\* with top probability p <= 0.15 or normalized entropy H >= 0.92 is not in
\* the list the confidence gate returns
C19_GateRejectsNoise ==
  \A k \in DOMAIN accepted :
    accepted[k].hasOcr =>
      accepted[k].ocrConfidence > 15 /\ accepted[k].ocrEntropy < 92

\* C20: the key signature in the metadata of the returned score has a count
\* in 0..7, whatever the argmax of the digit classifier was
C20_KeyCountClamped ==
  pc = "returned" => keySignature.count \in 0..7

\* C21: in the bar lines _filterBarLines returns, every bar line on a staff
\* of a multi-staff system has, on every other staff of that system, a bar
\* line within one staff spacing of its x
C21_ConsensusAfterMinWidth ==
  \A k \in DOMAIN systems : \A b \in Range(barLines) :
    Len(systems[k]) > 1 /\ b.staffIndex \in Range(systems[k]) =>
      \A si \in Range(systems[k]) \ {b.staffIndex} :
        \E other \in Range(barLines) :
          other.staffIndex = si /\ Abs(other.x - b.x) <= StaffSpacing

(***************************************************************************)
(* SoundFonts with a global zone and with volume envelopes: the instrument *)
(* of the file has an optional first bag without a sample, then one or two *)
(* zones, each naming one of two samples of the pool.                      *)
(***************************************************************************)
GlobalGenChoices ==
  {[fineTune |-> 5],
   [startOffset |-> 1, volEnvDecay |-> 0],
   [coarseTune |-> 1, volEnvAttack |-> 0, volEnvRelease |-> 0]}

FontGenChoices ==
  {[sampleIndex |-> 0],
   [sampleIndex |-> 0, fineTune |-> 0, coarseTune |-> 0, startOffset |-> 0],
   [sampleIndex |-> 0, volEnvAttack |-> 0, volEnvDecay |-> 0,
    volEnvSustain |-> 500, volEnvRelease |-> 0],
   [sampleIndex |-> 1, fineTune |-> -3, volEnvDecay |-> 2400]}

FontFiles ==
  LET shdr == <<SampleHeader(0, PoolLen, 1), SampleHeader(3, PoolLen, 1)>>
      zoneBags == UNION {[1..n -> FontGenChoices] : n \in 1..2}
  IN {SoundFontFile("RIFF", "sfbk", RequiredChunks, shdr, bags) :
        bags \in zoneBags \cup {<<g>> \o z : g \in GlobalGenChoices, z \in zoneBags}}

\* one note of a sixteenth, a quarter or a whole, or a chord of two of them
FontScores ==
  {<<soundNote(1, XStep, 60, d)>> : d \in {"sixteenth", "quarter", "whole"}}
  \cup {<<soundNote(1, XStep, 60, "whole"), soundNote(2, XStep, 64, "quarter")>>}

InitFont ==
  /\ SheetIdle
  /\ pc = "rendering"
  /\ noteAudio = <<>>
  /\ master = <<>>
  /\ SoundIdle
  /\ image = NoImage
  /\ accepted = <<>>
  /\ race = "pending"
  /\ PlayIdle
  /\ sf2 \in FontFiles
  /\ score \in FontScores

SpecFont == InitFont /\ [][NextSound]_vars

\* C25: in every note rendered from the SoundFont, every output sample from
\* index sampleCount - releaseSamples on is in the release phase, no earlier
\* one is, and the envelope there lies on the line from the sustain level at
\* that index to 0 at the end of the note
C25_ReleaseReachesZero ==
  \A r \in DOMAIN renders : \A v \in DOMAIN renders[r].voices :
    LET voice == renders[r].voices[v]
        n == Len(voice.envelope)
        R == voice.releaseSamples
    IN (voice.source = "SoundFont" /\ R >= 1) =>
         \A i \in 0..(n - 1) :
           LET e == voice.envelope[i + 1]
           IN IF i >= n - R
                THEN /\ e.phase = "release"
                     /\ e.num * R = voice.sustainLevel * (n - i) * e.den
                ELSE e.phase # "release"

\* C26: every zone built is the one its own generator list gives, field by
\* field: the zone's own value when its list sets the field (0 included),
\* else the global zone's when that sets it, else the SF2 default
C26_ZoneGeneratorWins ==
  LET bags == sf2.zoneGens
      hasGlobal == "sampleIndex" \notin DOMAIN bags[1]
      off == IF hasGlobal THEN 1 ELSE 0
      global == IF hasGlobal THEN bags[1] ELSE [f \in {} |-> 0]
      sf2Default == [keyLo |-> 0, keyHi |-> 127, velLo |-> 0, velHi |-> 127,
                     rootKey |-> -1, fineTune |-> 0, coarseTune |-> 0,
                     startOffset |-> 0, endOffset |-> 0,
                     startCoarseOffset |-> 0, endCoarseOffset |-> 0,
                     sampleMode |-> 0, volEnvAttack |-> -12000,
                     volEnvDecay |-> -12000, volEnvSustain |-> 0,
                     volEnvRelease |-> -12000]
      winner(own) ==
        [f \in DOMAIN GenDefaults |->
           IF f \in DOMAIN own THEN parseGens(own)[f]
           ELSE IF f \in DOMAIN global THEN parseGens(global)[f]
           ELSE sf2Default[f]]
  IN (loadPc = "done" /\ sf2 \in FontFiles
        /\ Len(soundFont._allZones) = Len(bags) - off) =>
       \A k \in DOMAIN soundFont._allZones :
         soundFont._allZones[k]
           = zoneOf(winner(bags[k + off]),
                    soundFont._sampleHeaders[bags[k + off].sampleIndex + 1])

(***************************************************************************)
(* Playback: the playback screen's handlers and effect over                *)
(* AudioPlaybackService.  A handler runs to its end before the next event, *)
(* except that Audio.Sound.createAsync resolves later, after other events; *)
(* the other native calls (stopAsync, unloadAsync, getStatusAsync,         *)
(* pauseAsync, playAsync) are taken to resolve before the next event.      *)
(* prepareAudio awaits only createCombinedAudio, which awaits only the     *)
(* synchronous write of the file, so it ends before the next event too and *)
(* the Play button is never seen disabled by preparing.  A file is named   *)
(* by the clock value it was written at.                                   *)
(***************************************************************************)
MaxFiles == 2   \* WAV files written in one run
MaxCalls == 2   \* calls of createAsync in flight

\* AudioPlaybackService.stop(): the sound is stopped and unloaded, the file
\* named by _tempFileUri is deleted if it exists
stop(svc) == [sound |-> NoSound, isPlaying |-> FALSE, _tempFileUri |-> 0]

filesAfterStop(svc, files) ==
  IF svc._tempFileUri # 0 THEN files \ {svc._tempFileUri} ELSE files

\* AudioPlaybackService.pause()
pause(svc) ==
  [svc EXCEPT !.sound = IF svc.sound.loaded /\ svc.sound.isPlaying
                          THEN [svc.sound EXCEPT !.isPlaying = FALSE]
                          ELSE svc.sound,
              !.isPlaying = FALSE]

\* AudioPlaybackService.resume()
resume(svc) ==
  IF svc.sound.loaded /\ ~svc.sound.isPlaying
    THEN [svc EXCEPT !.sound = [svc.sound EXCEPT !.isPlaying = TRUE],
                     !.isPlaying = TRUE]
    ELSE svc

\* the onFinished callback handlePlay hands to play()
onFinished(scr) ==
  IF scr.mounted THEN [scr EXCEPT !.isPlaying = FALSE, !.isPaused = FALSE] ELSE scr

recognitionVars == <<pc, keySignature, timeSignature, clefs, systems, barLines,
                     noteHeads, tieArcs, restsFound, notes, rests, measures,
                     score, noteAudio, master, sf2, soundFont, soundFontReady,
                     loadPc, renders, image, accepted, race>>

\* the effect on [scoreData, tempo, voiceSelection]: the cleanup of its
\* previous run, then initAudio and prepareAudio
RunEffect ==
  /\ screen.mounted /\ screen.effectPending
  /\ LET svc == IF screen.effectRan THEN stop(service) ELSE service
         files == IF screen.effectRan THEN filesAfterStop(service, cache) ELSE cache
         filtered == filteredNotes(score, voiceSelection)
         result == createCombinedAudio(filtered, tempo, <<>>)
     IN /\ service' = svc
        /\ stopped' = (screen.effectRan \/ stopped)
        /\ IF Len(filtered) = 0
             THEN /\ cache' = files
                  /\ screen' = [screen EXCEPT !.effectPending = FALSE,
                                              !.effectRan = TRUE]
                  /\ UNCHANGED <<clock, audio>>
             ELSE /\ cache' = files \cup {clock}
                  /\ clock' = clock + 1
                  /\ audio' = result
                  /\ screen' = [screen EXCEPT
                                  !.effectPending = FALSE, !.effectRan = TRUE,
                                  !.audioFileUri =
                                     IF Len(result.timingMap) = 0
                                          \/ result.totalDuration <= 0
                                       THEN 0 ELSE clock]
  /\ UNCHANGED <<recognitionVars, voiceSelection, tempo, calls>>

\* the Play button while it shows Play or Resume: handlePlay up to the await
\* of createAsync inside play(), or to its end on the other two paths
HandlePlay ==
  /\ screen.mounted /\ ~screen.effectPending /\ ~screen.isPlaying
  /\ stopped' = FALSE
  /\ IF screen.audioFileUri = 0
       THEN UNCHANGED <<service, screen, cache, calls>>
     ELSE IF screen.isPaused
       THEN /\ service' = resume(service)
            /\ screen' = [screen EXCEPT !.isPlaying = TRUE, !.isPaused = FALSE]
            /\ UNCHANGED <<cache, calls>>
     ELSE /\ Len(calls) < MaxCalls
          /\ service' = [stop(service) EXCEPT !._tempFileUri = screen.audioFileUri]
          /\ cache' = filesAfterStop(service, cache)
          /\ screen' = [screen EXCEPT !.isPlaying = TRUE, !.isPaused = FALSE]
          /\ calls' = Append(calls, [uri |-> screen.audioFileUri,
                                     found |-> screen.audioFileUri \in cache'])
  /\ UNCHANGED <<recognitionVars, voiceSelection, tempo, audio, clock>>

\* createAsync resolves or rejects, and play() and handlePlay run to their
\* ends.  A file that was there when the load began and has been deleted
\* since may or may not still load.
CreateAsyncEnd ==
  \E k \in DOMAIN calls :
    \E ok \in IF ~calls[k].found THEN {FALSE}
              ELSE IF calls[k].uri \in cache THEN {TRUE} ELSE {TRUE, FALSE} :
      /\ calls' = [j \in 1..(Len(calls) - 1) |->
                     IF j < k THEN calls[j] ELSE calls[j + 1]]
      /\ IF ok
           THEN /\ service' = [service EXCEPT
                                 !.sound = [loaded |-> TRUE, uri |-> calls[k].uri,
                                            isPlaying |-> TRUE],
                                 !.isPlaying = TRUE]
                /\ UNCHANGED screen
           ELSE /\ service' = [service EXCEPT !.isPlaying = FALSE]
                /\ screen' = onFinished(screen)
      /\ UNCHANGED <<recognitionVars, voiceSelection, tempo, audio, cache,
                     clock, stopped>>

\* the Play button while it shows Pause
HandlePause ==
  /\ screen.mounted /\ ~screen.effectPending /\ screen.isPlaying
  /\ service' = pause(service)
  /\ screen' = [screen EXCEPT !.isPlaying = FALSE, !.isPaused = TRUE]
  /\ UNCHANGED <<recognitionVars, voiceSelection, tempo, audio, cache, calls,
                 clock, stopped>>

HandleStop ==
  /\ screen.mounted /\ ~screen.effectPending
  /\ service' = stop(service)
  /\ cache' = filesAfterStop(service, cache)
  /\ screen' = [screen EXCEPT !.isPlaying = FALSE, !.isPaused = FALSE]
  /\ stopped' = TRUE
  /\ UNCHANGED <<recognitionVars, voiceSelection, tempo, audio, calls, clock>>

\* the status update with didJustFinish of the sound the service holds
DidJustFinish ==
  /\ service.sound.loaded /\ service.sound.isPlaying
  /\ service' = [service EXCEPT !.sound = [service.sound EXCEPT !.isPlaying = FALSE],
                                !.isPlaying = FALSE]
  /\ screen' = onFinished(screen)
  /\ UNCHANGED <<recognitionVars, voiceSelection, tempo, audio, cache, calls,
                 clock, stopped>>

\* the tempo buttons, disabled while isPlaying
SetTempo ==
  /\ screen.mounted /\ ~screen.effectPending /\ ~screen.isPlaying
  /\ clock <= MaxFiles
  /\ \E t \in {Max2(40, tempo - 10), Min2(240, tempo + 10)} :
       /\ tempo' = t
       /\ screen' = [screen EXCEPT !.effectPending = (t # tempo)]
  /\ UNCHANGED <<recognitionVars, voiceSelection, audio, service, cache, calls,
                 clock, stopped>>

\* the voice buttons, disabled while isPlaying
toggleVoice ==
  /\ screen.mounted /\ ~screen.effectPending /\ ~screen.isPlaying
  /\ clock <= MaxFiles
  /\ \E voice \in Voices :
       LET next == [voiceSelection EXCEPT ![voice] = ~voiceSelection[voice]]
       IN IF \A v \in Voices : ~next[v]
            THEN UNCHANGED <<voiceSelection, screen>>
            ELSE /\ voiceSelection' = next
                 /\ screen' = [screen EXCEPT !.effectPending = TRUE]
  /\ UNCHANGED <<recognitionVars, tempo, audio, service, cache, calls, clock,
                 stopped>>

\* the screen is left: the effect's cleanup runs
NavigateBack ==
  /\ screen.mounted /\ ~screen.effectPending
  /\ screen' = [screen EXCEPT !.mounted = FALSE]
  /\ service' = stop(service)
  /\ cache' = filesAfterStop(service, cache)
  /\ stopped' = TRUE
  /\ UNCHANGED <<recognitionVars, voiceSelection, tempo, audio, calls, clock>>

NextPlay ==
  \/ RunEffect
  \/ HandlePlay
  \/ CreateAsyncEnd
  \/ HandlePause
  \/ HandleStop
  \/ DidJustFinish
  \/ SetTempo
  \/ toggleVoice
  \/ NavigateBack

\* the scores played: one soprano note, or a soprano and a bass note
PlayScores ==
  {<<soundNote(1, XStep, 60, "quarter")>>,
   <<soundNote(1, XStep, 60, "quarter"),
     [soundNote(2, 2 * XStep, 48, "quarter") EXCEPT !.voice = "Bass"]>>}

\* processScore has set scoreData; the effect has not run yet
InitPlay ==
  /\ SheetIdle
  /\ pc = "returned"
  /\ noteAudio = <<>>
  /\ master = <<>>
  /\ SoundIdle
  /\ image = NoImage
  /\ accepted = <<>>
  /\ race = "result"
  /\ sf2 = NoFile
  /\ score \in PlayScores
  /\ service = [sound |-> NoSound, isPlaying |-> FALSE, _tempFileUri |-> 0]
  /\ screen = [mounted |-> TRUE, effectPending |-> TRUE, effectRan |-> FALSE,
               isPlaying |-> FALSE, isPaused |-> FALSE, audioFileUri |-> 0]
  /\ cache = {}
  /\ calls = <<>>
  /\ clock = 1
  /\ stopped = FALSE

SpecPlay == InitPlay /\ [][NextPlay]_vars

\* C27: every call of play() that has reached createAsync found the WAV
\* file of its fileUri in the cache
C27_FileExistsAtCreate ==
  \A k \in DOMAIN calls : calls[k].found

\* C28: when the screen's isPlaying flag is true and no handlePlay is still
\* waiting for createAsync, the service holds a loaded sound
C28_PlayingMeansLoaded ==
  (screen.mounted /\ screen.isPlaying /\ calls = <<>>) => service.sound.loaded

\* C29: after stop() has run for handleStop or the effect's cleanup, and
\* until Play is pressed again, the service holds no sound and does not play
C29_StoppedStaysSilent ==
  stopped => (~service.sound.loaded /\ ~service.isPlaying)

\* C30: once the screen has been left, its cleanup has run and no call is
\* in flight, no WAV file remains in the cache
C30_NoFileLeftBehind ==
  (~screen.mounted /\ calls = <<>>) => cache = {}

====
